---- MODULE Spec2Model ----
(***************************************************************************)
(* Data-acquisition cascade of the football prediction trainer:            *)
(*   FootballPredictionTrainer.load_data        (training/train.py)        *)
(*   DatabaseLoader                             (training/database_loader) *)
(*   FootballDataOrgFetcher                     (football_data_org_fetcher)*)
(* The PostgreSQL store is modelled as three tables (leagues, teams,       *)
(* fixtures) with the unique keys the ON CONFLICT clauses name; time is    *)
(* counted in whole units (years for kickoffs, seconds for the throttle).  *)
(***************************************************************************)
EXTENDS Integers, Sequences, FiniteSets, TLC

(***************************************************************************)
(* Bounds of the model.                                                    *)
(***************************************************************************)
MaxMinSamples == 2
MaxLimit == 1
MaxSynthetic == 1
MaxStored == 3

(***************************************************************************)
(* Values.  None stands for Python's None / SQL NULL in integer columns,   *)
(* NoText for None / NULL in text columns.                                 *)
(***************************************************************************)
None == 0 - 1
NoText == "NULL"

\* a or b, on integers and on text: Python's `x or y` for the values used here
OrElse(a, b) == IF a = None THEN b ELSE a
OrElseText(a, b) == IF a = NoText \/ a = "" THEN b ELSE a

\* COALESCE(EXCLUDED.col, table.col)
Coalesce(new, old) == IF new = NoText THEN old ELSE new

RECURSIVE SeqMin(_)
SeqMin(s) ==
    IF Len(s) = 1 THEN s[1]
    ELSE LET m == SeqMin(Tail(s)) IN IF s[1] < m THEN s[1] ELSE m

RECURSIVE FilterSeq(_, _)
\* the subsequence of s at the positions in keep
FilterSeq(s, keep) ==
    IF s = << >> THEN << >>
    ELSE LET rest == FilterSeq(Tail(s), {i - 1 : i \in keep \ {1}})
         IN IF 1 \in keep THEN << Head(s) >> \o rest ELSE rest

Prefix(s, n) == IF n >= Len(s) THEN s ELSE SubSeq(s, 1, n)

(***************************************************************************)
(* The store: tables as sets of rows.  A new row's id is the next unused   *)
(* row number of its table (rows are never deleted).                       *)
(***************************************************************************)
EmptyStore == [leagues |-> {}, teams |-> {}, fixtures |-> {}]

NewId(table) == Cardinality(table) + 1

\* psycopg2's RETURNING id after an upsert on a unique key
RowId(table, key, val) == (CHOOSE r \in table : r[key] = val).id

\* a mutant of Conflict: a plain INSERT, no conflict ever seen
ConflictNever(table, key, val) == FALSE

\* ON CONFLICT (<key>): a row with this unique key value exists
Conflict(table, key, val) == \E r \in table : r[key] = val

\* FootballDataOrgFetcher._upsert_league (emblemUrl behaves as country)
UpsertLeague(s, competition) ==
    LET code == OrElseText(competition.code, "")
        name == OrElseText(competition.name, code)
    IN IF Conflict(s.leagues, "code", code)
       THEN [s EXCEPT !.leagues =
                { IF r.code = code
                  THEN [r EXCEPT !.name = name,
                                 !.country = Coalesce(competition.country, r.country)]
                  ELSE r : r \in s.leagues }]
       ELSE [s EXCEPT !.leagues =
                @ \cup {[id |-> NewId(@), code |-> code, name |-> name,
                         country |-> competition.country]}]

\* FootballDataOrgFetcher._upsert_team (tla, crestUrl, venue behave as shortName)
UpsertTeam(s, team, league_id) ==
    IF Conflict(s.teams, "externalId", team.id)
    THEN [s EXCEPT !.teams =
             { IF r.externalId = team.id
               THEN [r EXCEPT !.name = team.name,
                              !.shortName = Coalesce(team.shortName, r.shortName),
                              !.leagueId = OrElse(league_id, r.leagueId)]
               ELSE r : r \in s.teams }]
    ELSE [s EXCEPT !.teams =
             @ \cup {[id |-> NewId(@), externalId |-> team.id, name |-> team.name,
                      shortName |-> team.shortName, leagueId |-> league_id]}]

\* FootballDataOrgFetcher._format_season: "<start year>/<end year>" or str(fallback)
FormatSeason(match, fallback) ==
    IF match.season.startDate # None /\ match.season.endDate # None
    THEN << match.season.startDate, match.season.endDate >>
    ELSE << fallback >>

\* an utcDate text that datetime.fromisoformat rejects
BadDate == 0 - 2

\* FootballDataOrgFetcher._parse_datetime
ParseDatetime(value) == IF value = None \/ value = BadDate THEN None ELSE value

\* FootballDataOrgFetcher._upsert_match (half-time, extra-time and penalty
\* columns are overwritten exactly as homeGoals/awayGoals are)
UpsertMatch(s, match, league_id, fallback_season) ==
    LET s1 == UpsertTeam(s, match.homeTeam, league_id)
        home_team_id == RowId(s1.teams, "externalId", match.homeTeam.id)
        s2 == UpsertTeam(s1, match.awayTeam, league_id)
        away_team_id == RowId(s2.teams, "externalId", match.awayTeam.id)
        cols == [externalId |-> match.id,
                 kickoff |-> ParseDatetime(match.utcDate),
                 status |-> match.status,
                 homeGoals |-> match.fullTime.home,
                 awayGoals |-> match.fullTime.away,
                 season |-> FormatSeason(match, fallback_season),
                 homeTeamId |-> home_team_id,
                 awayTeamId |-> away_team_id,
                 leagueId |-> league_id]
    IN IF Conflict(s2.fixtures, "externalId", match.id)
       THEN [s2 EXCEPT !.fixtures =
                { IF r.externalId = match.id
                  THEN [cols EXCEPT !.externalId = r.externalId] @@ [id |-> r.id]
                  ELSE r : r \in s2.fixtures }]
       ELSE [s2 EXCEPT !.fixtures = @ \cup {cols @@ [id |-> NewId(@)]}]

\* the body of one (league, season) batch of seed_historical_matches, lines
\* 103-108: the league of the first match, then every match in order
RECURSIVE UpsertMatches(_, _, _, _)
UpsertMatches(s, matches, league_id, season) ==
    IF matches = << >> THEN s
    ELSE UpsertMatches(UpsertMatch(s, Head(matches), league_id, season),
                       Tail(matches), league_id, season)

UpsertBatch(s, matches, season) ==
    LET s1 == UpsertLeague(s, matches[1].competition)
        league_id == RowId(s1.leagues, "code", OrElseText(matches[1].competition.code, ""))
    IN UpsertMatches(s1, matches, league_id, season)

(***************************************************************************)
(* The remote source.  Seasons are years 1 and 2; the run happens in year  *)
(* 3.  A match record carries the nested team, score, competition and      *)
(* season objects of the football-data.org answer.                         *)
(***************************************************************************)
FirstSeason == 1
LastSeason == FirstSeason + 1
Now == LastSeason + 1

TeamNames == << "Arsenal", "Chelsea", "Everton", "Betis", "Getafe" >>
Team(i) == [id |-> i, name |-> TeamNames[i],
            shortName |-> IF i % 2 = 0 THEN NoText ELSE "FC"]

Competition(code) == [code |-> code, name |-> code, country |-> NoText]

RemoteMatch(id, date, hg, ag, h, a, code, year) ==
    [id |-> id, utcDate |-> date, status |-> "FINISHED",
     fullTime |-> [home |-> hg, away |-> ag],
     homeTeam |-> Team(h), awayTeam |-> Team(a),
     competition |-> Competition(code),
     season |-> [startDate |-> year, endDate |-> year + 1]]

\* what GET /competitions/<league>/matches?season=<season> may answer
RemoteResponses(league_code, season) ==
    IF league_code = "PL" /\ season = LastSeason
    THEN { << RemoteMatch(11, LastSeason, 2, 1, 1, 2, "PL", LastSeason),
              RemoteMatch(12, LastSeason, 1, 1, 2, 3, "PL", LastSeason) >> }
    ELSE IF league_code = "PL" /\ season = FirstSeason
    THEN { << >>, << RemoteMatch(13, FirstSeason, 0, 2, 3, 1, "PL", FirstSeason) >> }
    ELSE IF league_code = "PD" /\ season = LastSeason
    THEN { << [RemoteMatch(14, BadDate, None, None, 4, 5, "PD", LastSeason)
                 EXCEPT !.season = [startDate |-> None, endDate |-> None]] >> }
    ELSE { << >> }

(***************************************************************************)
(* What the store may hold before the run: the first k fixtures of an      *)
(* earlier seeding of the PL, every third one older than two years.        *)
(***************************************************************************)
StoredMatch(i) ==
    RemoteMatch(10 + i, IF i % 3 = 0 THEN 0 ELSE LastSeason, i % 3, 1, 1, 2, "PL", LastSeason)

RECURSIVE StoredMatches(_)
StoredMatches(k) == IF k = 0 THEN << >> ELSE StoredMatches(k - 1) \o << StoredMatch(k) >>

PreStored(k) == IF k = 0 THEN EmptyStore ELSE UpsertBatch(EmptyStore, StoredMatches(k), LastSeason)

(***************************************************************************)
(* DatabaseLoader: the finished-match query and the dataset built from it. *)
(***************************************************************************)
Range(s) == {s[i] : i \in 1..Len(s)}

\* ORDER BY f.kickoff DESC (equal kickoffs in row order)
Before(a, b) == a.kickoff > b.kickoff \/ (a.kickoff = b.kickoff /\ a.id < b.id)

RECURSIVE SortRows(_)
SortRows(rows) ==
    IF rows = {} THEN << >>
    ELSE LET first == CHOOSE r \in rows : \A o \in rows \ {r} : Before(r, o)
         IN << first >> \o SortRows(rows \ {first})

\* the WHERE clause and the three JOINs of load_finished_matches
Selected(s, f, min_date, leagues) ==
    /\ f.status = "FINISHED"
    /\ f.homeGoals # None
    /\ f.awayGoals # None
    /\ min_date # None => (f.kickoff # None /\ f.kickoff >= min_date)
    /\ \E l \in s.leagues : l.id = f.leagueId /\ (leagues # << >> => l.code \in Range(leagues))
    /\ \E ht \in s.teams : ht.id = f.homeTeamId
    /\ \E at \in s.teams : at.id = f.awayTeamId

\* a mutant of Limit: LIMIT added whenever a limit is given, 0 included
LimitAlways(rows, limit) == Prefix(rows, limit)

\* LIMIT %s, added only when limit is truthy
Limit(rows, limit) == IF limit # 0 THEN Prefix(rows, limit) ELSE rows

\* DatabaseLoader.load_finished_matches on an open connection
LoadFinishedMatches(s, min_date, leagues, limit) ==
    Limit(SortRows({f \in s.fixtures : Selected(s, f, min_date, leagues)}), limit)

\* the outcome label of prepare_training_data: 0=HOME, 1=DRAW, 2=AWAY
Label(homeGoals, awayGoals) ==
    IF homeGoals > awayGoals THEN 0 ELSE IF homeGoals < awayGoals THEN 2 ELSE 1

\* DatabaseLoader.prepare_training_data: one feature row (named here by the
\* match it was extracted from) and one label per loaded match, the matches
\* whose extraction raised (failing, a set of positions) skipped
PrepareTrainingData(rows, failing) ==
    LET kept == FilterSeq(rows, (1..Len(rows)) \ failing)
    IN [src |-> "store",
        X |-> [i \in 1..Len(kept) |-> kept[i].externalId],
        y |-> [i \in 1..Len(kept) |-> Label(kept[i].homeGoals, kept[i].awayGoals)]]

\* generate_synthetic_data: n_samples random rows, one sampled label each
GenerateSyntheticData(n_samples, labels) ==
    [src |-> "synthetic", X |-> [i \in 1..n_samples |-> 0], y |-> labels]

\* mutants of Gate: the comparison inverted; any non-empty dataset accepted
GateInverted(n, min_samples) == n <= min_samples
GatePositive(n, min_samples) == n > 0

\* len(X) >= self.config.get('min_samples', 500)
Gate(n, min_samples) == n >= min_samples

(***************************************************************************)
(* State of one run of FootballPredictionTrainer.load_data.                *)
(***************************************************************************)
VARIABLES
    cfg,            \* self.config and the environment: the trainer's configuration
    pc,             \* where load_data (and seed_historical_matches in it) stands
    db,             \* the committed contents of the store
    txdb,           \* the store as the seeding connection's open transaction sees it
    opened,         \* per opener, how many connections it has opened during the run
    open,           \* the connections now open, each named by its opener
    loader,         \* DatabaseLoader.connection of the loader in use: TRUE when set
    batch,          \* position of seed_historical_matches in its (league, season) loop
    matches,        \* the match records of the batch in hand
    mi,             \* position in matches
    league_id,      \* league_id of the batch in hand
    totals,         \* << total_processed, total_inserted >>
    last_request_at,\* FootballDataOrgFetcher._last_request_at
    clock,          \* time.time()
    result,         \* what load_data returned
    log,            \* history: the stages attempted and the return, in order
    s1_outcome,     \* history: how the persisted-store stage ended
    batch_log,      \* history: how each batch attempted so far ended
    expected,       \* history: the store with exactly the committed batches applied
    seed_state,     \* history: idle, running, returned or raised
    db0,            \* history: the store as it was when the run began
    steps,          \* history: the number of steps load_data has taken
    elapsed,        \* _throttle's local: time.time() - self._last_request_at
    issued,         \* history: the times at which the requests were issued
    slept,          \* history: how long _throttle slept before each request
    db_once,        \* history: the store after the first seeding of a list
    call,           \* the arguments of the DatabaseLoader or FeatureEngineer call in hand
    ret,            \* what that call returned
    idx,            \* prepare_training_data: position in matches_df
    features_list,  \* prepare_training_data: features_list
    labels,         \* prepare_training_data: labels
    skipped,        \* history: how the per-match step of each match so far ended
    files           \* the files in the model directory, by path

vars == << cfg, pc, db, txdb, opened, open, loader, batch, matches, mi, league_id,
           totals, last_request_at, clock, result, log, s1_outcome, batch_log,
           expected, seed_state, db0, steps,
           elapsed, issued, slept, db_once,
           call, ret, idx, features_list, labels, skipped, files >>

seedVars == << txdb, batch, matches, mi, league_id, totals, batch_log, expected, seed_state >>
timeVars == << last_request_at, clock >>
unitVars == << call, ret, idx, features_list, labels, skipped, files >>
auxVars == << elapsed, issued, slept, db_once, unitVars >>

\* no call of the loader or the feature engineer under way
NoCall == [fn |-> "none"]
NoReturn == [kind |-> "none"]
UnitIdle ==
    /\ call = NoCall
    /\ ret = NoReturn
    /\ idx = 0
    /\ features_list = << >>
    /\ labels = << >>
    /\ skipped = << >>
    /\ files = {}

NoResult == [src |-> "none", X |-> << >>, y |-> << >>]

\* min_interval_seconds of FootballDataOrgFetcher.__init__
MinInterval == 6

\* time.time() when the run starts: seconds since 1970, far beyond MinInterval
StartClock == MinInterval + 1

Openers == {"loader1", "seed", "loader2"}

\* the (league, season) pairs in the order of the nested loops, lines 97-98
Batches(leagues, seasons) ==
    [k \in 1..(Len(leagues) * Len(seasons)) |->
        << leagues[((k - 1) \div Len(seasons)) + 1], seasons[((k - 1) % Len(seasons)) + 1] >>]

RunBatches == Batches(cfg.leagues, cfg.seasons)

Configs ==
    [use_database : BOOLEAN,
     fetch_historical_data : BOOLEAN,
     min_samples : 0..MaxMinSamples,
     max_samples : 0..MaxLimit,
     synthetic_samples : 0..MaxSynthetic,
     leagues : {<< "PL" >>, << "PL", "PD" >>},
     seasons : {<< >>, << LastSeason >>, << LastSeason, FirstSeason >>},
     api_key : BOOLEAN]

Init ==
    /\ cfg \in Configs
    /\ pc = "start"
    /\ \E k \in 0..MaxStored : db = PreStored(k)
    /\ db0 = db
    /\ steps = 0
    /\ elapsed = 0
    /\ issued = << >>
    /\ slept = << >>
    /\ db_once = EmptyStore
    /\ txdb = EmptyStore
    /\ opened = [o \in Openers |-> 0]
    /\ open = [o \in Openers |-> 0]
    /\ loader = FALSE
    /\ batch = 0
    /\ matches = << >>
    /\ mi = 0
    /\ league_id = None
    /\ totals = << 0, 0 >>
    /\ last_request_at = 0
    /\ clock = StartClock
    /\ result = NoResult
    /\ log = << >>
    /\ s1_outcome = "none"
    /\ batch_log = << >>
    /\ expected = db
    /\ seed_state = "idle"
    /\ UnitIdle

(***************************************************************************)
(* Connections.                                                            *)
(***************************************************************************)
\* psycopg2.connect(...) succeeded for this opener
Opening(o) == [opened EXCEPT ![o] = @ + 1]
NowOpen(o) == [open EXCEPT ![o] = @ + 1]
\* connection.close()
NowClosed(o) == [open EXCEPT ![o] = IF @ > 0 THEN @ - 1 ELSE 0]

\* a mutant of Attach: the new connection not kept in self.connection
AttachDropped(connection) == FALSE

\* DatabaseLoader.connect, line 102: self.connection = psycopg2.connect(...)
Attach(connection) == connection

(***************************************************************************)
(* load_data, stage 1: the persisted store.                                *)
(***************************************************************************)
\* line 109: if self.config.get('use_database', True)
LoadStart ==
    /\ pc = "start"
    /\ steps' = steps + 1
    /\ UNCHANGED auxVars
    /\ pc' = IF cfg.use_database THEN "s1_connect" ELSE "s2_check"
    /\ UNCHANGED << cfg, db, db0, opened, open, loader, result, log, s1_outcome >>
    /\ UNCHANGED seedVars
    /\ UNCHANGED timeVars

\* lines 114-116: loader = DatabaseLoader(); loader.connect()
S1Connect ==
    /\ pc = "s1_connect"
    /\ steps' = steps + 1
    /\ UNCHANGED auxVars
    /\ log' = Append(log, "store")
    /\ \E ok \in BOOLEAN :
         IF ok
         THEN /\ opened' = Opening("loader1")
              /\ open' = NowOpen("loader1")
              /\ loader' = Attach(TRUE)
              /\ pc' = "s1_query"
              /\ UNCHANGED s1_outcome
         ELSE /\ pc' = "s2_check"
              /\ s1_outcome' = "connect_failed"
              /\ UNCHANGED << opened, open, loader >>
    /\ UNCHANGED << cfg, db, db0, result >>
    /\ UNCHANGED seedVars
    /\ UNCHANGED timeVars

\* a mutant of AfterGate: the return of an accepted dataset forgotten
AfterGateNoReturn(accepted, fallthrough) == fallthrough

\* after a store stage whose dataset passed or missed the gate
AfterGate(accepted, fallthrough) == IF accepted THEN "done" ELSE fallthrough

\* prepare_training_data, disconnect and the sample gate, as lines 120-135
\* (stage 1) and lines 160-169 (the re-query) run them for one loader
StoreQuery(o, min_date, fallthrough) ==
    \E fails \in BOOLEAN, reconnect \in (IF loader THEN {FALSE} ELSE BOOLEAN) :
      LET connected == loader \/ reconnect
          attached == loader \/ (reconnect /\ Attach(TRUE))
          rows == IF fails \/ ~connected THEN << >>
                  ELSE LoadFinishedMatches(db, min_date, cfg.leagues, cfg.max_samples)
      IN \E failing \in SUBSET (1..Len(rows)) :
           LET data == PrepareTrainingData(rows, failing)
               accepted == Gate(Len(data.X), cfg.min_samples)
           IN /\ opened' = IF reconnect THEN Opening(o) ELSE opened
              /\ open' = IF attached
                         THEN (IF reconnect THEN open ELSE NowClosed(o))
                         ELSE (IF reconnect THEN NowOpen(o) ELSE open)
              /\ loader' = FALSE
              /\ pc' = AfterGate(accepted, fallthrough)
              /\ result' = IF accepted THEN data ELSE result
              /\ log' = IF accepted THEN Append(log, "return") ELSE log
              /\ s1_outcome' = IF o # "loader1" THEN s1_outcome
                               ELSE IF fails \/ ~connected THEN "query_failed"
                               ELSE IF failing # {} THEN "rows_skipped"
                               ELSE "clean"

\* an exception escaping between connect() and disconnect(): the handler of
\* lines 137-139 (stage 1) or 173-175 (the re-query) takes over, the
\* connection is not closed
StoreRaise(o, handler) ==
    /\ pc' = handler
    /\ loader' = FALSE
    /\ s1_outcome' = IF o = "loader1" THEN "raised" ELSE s1_outcome
    /\ UNCHANGED << opened, open, result, log >>

\* min_date = datetime.now() - timedelta(days=730)
Stage1MinDate == Now - 2

S1Query ==
    /\ pc = "s1_query"
    /\ steps' = steps + 1
    /\ UNCHANGED auxVars
    /\ \/ StoreQuery("loader1", Stage1MinDate, "s2_check")
       \/ StoreRaise("loader1", "s2_check")
    /\ UNCHANGED << cfg, db, db0 >>
    /\ UNCHANGED seedVars
    /\ UNCHANGED timeVars

(***************************************************************************)
(* load_data, stage 2: the remote backfill, seed_historical_matches.       *)
(***************************************************************************)
\* a mutant of Stage2Handler: the handler re-raises
Stage2Reraise == "raised"

\* the handler of lines 173-175: any exception of stage 2 falls through to
\* the synthetic stage
Stage2Handler == "s3"

\* lines 142-152 and 170-171
S2Check ==
    /\ pc = "s2_check"
    /\ steps' = steps + 1
    /\ UNCHANGED auxVars
    /\ IF cfg.fetch_historical_data /\ cfg.seasons # << >> /\ cfg.api_key
       THEN /\ pc' = "seed_connect"
            /\ log' = Append(log, "backfill")
       ELSE /\ pc' = "s3"
            /\ UNCHANGED log
    /\ UNCHANGED << cfg, db, db0, opened, open, loader, result, s1_outcome >>
    /\ UNCHANGED seedVars
    /\ UNCHANGED timeVars

\* lines 85-93: psycopg2 missing or psycopg2.connect raising is not caught in
\* seed_historical_matches
SeedConnect ==
    /\ pc = "seed_connect"
    /\ steps' = steps + 1
    /\ UNCHANGED auxVars
    /\ \E ok \in BOOLEAN :
         IF ok
         THEN /\ opened' = Opening("seed")
              /\ open' = NowOpen("seed")
              /\ txdb' = db
              /\ batch' = 1
              /\ seed_state' = "running"
              /\ pc' = "seed_fetch"
         ELSE /\ pc' = Stage2Handler
              /\ seed_state' = "raised"
              /\ UNCHANGED << opened, open, txdb, batch >>
    /\ totals' = << 0, 0 >>
    /\ UNCHANGED << cfg, db, db0, loader, result, log, s1_outcome, matches, mi,
                    league_id, batch_log, expected >>
    /\ UNCHANGED timeVars

\* a mutant of SleepFor: no sleep
SleepForNothing(since) == 0

\* FootballDataOrgFetcher._throttle: how long it sleeps
SleepFor(since) == IF since < MinInterval THEN MinInterval - since ELSE 0

\* line 99: fetch_matches -> _get -> _throttle, urlopen; lines 100-101
SeedFetch ==
    /\ pc = "seed_fetch"
    /\ steps' = steps + 1
    /\ UNCHANGED auxVars
    /\ batch <= Len(RunBatches)
    /\ clock' = clock + SleepFor(clock - last_request_at)
    /\ last_request_at' = clock'
    /\ \/ /\ pc' = "seed_except"
          /\ UNCHANGED << batch, matches, mi, batch_log >>
       \/ \E response \in RemoteResponses(RunBatches[batch][1], RunBatches[batch][2]) :
            IF response = << >>
            THEN /\ batch' = batch + 1
                 /\ batch_log' = Append(batch_log, "empty")
                 /\ pc' = "seed_fetch"
                 /\ UNCHANGED << matches, mi >>
            ELSE /\ matches' = response
                 /\ mi' = 1
                 /\ pc' = "seed_league"
                 /\ UNCHANGED << batch, batch_log >>
    /\ UNCHANGED << cfg, db, db0, opened, open, loader, result, log, s1_outcome,
                    txdb, league_id, totals, expected, seed_state >>

\* a mutant of Persist: the connection left in autocommit mode
PersistAutocommit(committed, working) == working

\* line 90, connection.autocommit = False: what the store holds after a
\* statement of the open transaction
Persist(committed, working) == committed

\* line 103
SeedLeague ==
    /\ pc = "seed_league"
    /\ steps' = steps + 1
    /\ UNCHANGED auxVars
    /\ \/ /\ txdb' = UpsertLeague(txdb, matches[1].competition)
          /\ league_id' = RowId(txdb'.leagues, "code",
                                OrElseText(matches[1].competition.code, ""))
          /\ db' = Persist(db, txdb')
          /\ pc' = "seed_match"
       \/ /\ pc' = "seed_except"
          /\ UNCHANGED << txdb, league_id, db >>
    /\ UNCHANGED << cfg, db0, opened, open, loader, result, log, s1_outcome, batch,
                    matches, mi, totals, batch_log, expected, seed_state >>
    /\ UNCHANGED timeVars

\* lines 105-108, one match
SeedMatch ==
    /\ pc = "seed_match"
    /\ steps' = steps + 1
    /\ UNCHANGED auxVars
    /\ \/ /\ txdb' = UpsertMatch(txdb, matches[mi], league_id, RunBatches[batch][2])
          /\ db' = Persist(db, txdb')
          /\ totals' = << totals[1] + 1, totals[2] + 1 >>
          /\ mi' = mi + 1
          /\ pc' = IF mi = Len(matches) THEN "seed_commit" ELSE "seed_match"
       \/ /\ totals' = << totals[1] + 1, totals[2] >>
          /\ pc' = "seed_except"
          /\ UNCHANGED << txdb, db, mi >>
    /\ UNCHANGED << cfg, db0, opened, open, loader, result, log, s1_outcome, batch,
                    matches, league_id, batch_log, expected, seed_state >>
    /\ UNCHANGED timeVars

\* line 110, connection.commit()
SeedCommit ==
    /\ pc = "seed_commit"
    /\ steps' = steps + 1
    /\ UNCHANGED auxVars
    /\ \/ /\ db' = txdb
          /\ expected' = UpsertBatch(expected, matches, RunBatches[batch][2])
          /\ batch_log' = Append(batch_log, "committed")
          /\ batch' = batch + 1
          /\ pc' = "seed_fetch"
       \/ /\ pc' = "seed_except"
          /\ UNCHANGED << db, expected, batch_log, batch >>
    /\ UNCHANGED << cfg, db0, opened, open, loader, result, log, s1_outcome, txdb,
                    matches, mi, league_id, totals, seed_state >>
    /\ UNCHANGED timeVars

\* lines 113-119: rollback, close, return; a rollback that raises leaves
\* through the finally clause to the handler of load_data
SeedExcept ==
    /\ pc = "seed_except"
    /\ steps' = steps + 1
    /\ UNCHANGED auxVars
    /\ txdb' = db
    /\ open' = NowClosed("seed")
    /\ batch_log' = Append(batch_log, "rolled_back")
    /\ \/ /\ seed_state' = "returned"
          /\ pc' = "s2_connect"
       \/ /\ seed_state' = "raised"
          /\ pc' = Stage2Handler
    /\ UNCHANGED << cfg, db, db0, opened, loader, result, log, s1_outcome, batch,
                    matches, mi, league_id, totals, expected >>
    /\ UNCHANGED timeVars

\* the loops end: lines 116-119
SeedFinish ==
    /\ pc = "seed_fetch"
    /\ steps' = steps + 1
    /\ UNCHANGED auxVars
    /\ batch > Len(RunBatches)
    /\ open' = NowClosed("seed")
    /\ seed_state' = "returned"
    /\ pc' = "s2_connect"
    /\ UNCHANGED << cfg, db, db0, opened, loader, result, log, s1_outcome, txdb,
                    batch, matches, mi, league_id, totals, batch_log, expected >>
    /\ UNCHANGED timeVars

\* lines 156-157
S2Connect ==
    /\ pc = "s2_connect"
    /\ steps' = steps + 1
    /\ UNCHANGED auxVars
    /\ \E ok \in BOOLEAN :
         IF ok
         THEN /\ opened' = Opening("loader2")
              /\ open' = NowOpen("loader2")
              /\ loader' = Attach(TRUE)
              /\ pc' = "s2_query"
         ELSE /\ pc' = "s3"
              /\ UNCHANGED << opened, open, loader >>
    /\ UNCHANGED << cfg, db, db0, result, log, s1_outcome >>
    /\ UNCHANGED seedVars
    /\ UNCHANGED timeVars

\* min_date = datetime(min(seasons), 1, 1)
Stage2MinDate == SeqMin(cfg.seasons)

\* lines 158-169
S2Query ==
    /\ pc = "s2_query"
    /\ steps' = steps + 1
    /\ UNCHANGED auxVars
    /\ \/ StoreQuery("loader2", Stage2MinDate, "s3")
       \/ StoreRaise("loader2", Stage2Handler)
    /\ UNCHANGED << cfg, db, db0 >>
    /\ UNCHANGED seedVars
    /\ UNCHANGED timeVars

(***************************************************************************)
(* load_data, stage 3: synthetic data.                                     *)
(***************************************************************************)
\* lines 177-185
S3Synthetic ==
    /\ pc = "s3"
    /\ steps' = steps + 1
    /\ UNCHANGED auxVars
    /\ \E sampled \in [1..cfg.synthetic_samples -> 0..2] :
         result' = GenerateSyntheticData(cfg.synthetic_samples, sampled)
    /\ log' = log \o << "synthetic", "return" >>
    /\ pc' = "done"
    /\ UNCHANGED << cfg, db, db0, opened, open, loader, s1_outcome >>
    /\ UNCHANGED seedVars
    /\ UNCHANGED timeVars

Next ==
    \/ LoadStart
    \/ S1Connect
    \/ S1Query
    \/ S2Check
    \/ SeedConnect
    \/ SeedFetch
    \/ SeedLeague
    \/ SeedMatch
    \/ SeedCommit
    \/ SeedExcept
    \/ SeedFinish
    \/ S2Connect
    \/ S2Query
    \/ S3Synthetic

Spec == Init /\ [][Next]_vars

(***************************************************************************)
(* Properties of the cascade.                                              *)
(***************************************************************************)
\* the finished matches of the store, as the run found it, that satisfy the
\* stage-1 filter (no row limit)
StoreHolds ==
    Cardinality({f \in db0.fixtures : Selected(db0, f, Stage1MinDate, cfg.leagues)})

SyntheticInvoked == "synthetic" \in Range(log)

\* C1 as stated, read in its favour (a threshold of at least 1, and a
\* stage 1 that, if it ran, met no failure): whenever the store holds at
\* least min_samples finished matches satisfying the filter, the run returns
\* a dataset built from the store and never invokes generate_synthetic_data,
\* whatever the configuration.
C1_AnyConfiguration ==
    (/\ pc = "done"
     /\ cfg.min_samples >= 1
     /\ StoreHolds >= cfg.min_samples
     /\ s1_outcome \in {"none", "clean"})
        => (result.src = "store" /\ ~SyntheticInvoked)

\* C1 amended: with use_database enabled, the connection and the query
\* succeeding, no match failing feature extraction and the row limit
\* max_samples either 0 (no limit) or at least min_samples, a store holding
\* at least min_samples finished matches satisfying the filter makes
\* load_data return the stage-1 dataset built from those matches;
\* no later stage runs and generate_synthetic_data is never invoked.
C1_StoreSuffices ==
    (/\ pc = "done"
     /\ cfg.use_database
     /\ s1_outcome = "clean"
     /\ cfg.max_samples = 0 \/ cfg.max_samples >= cfg.min_samples
     /\ StoreHolds >= cfg.min_samples)
        => /\ result = PrepareTrainingData(
                          LoadFinishedMatches(db0, Stage1MinDate, cfg.leagues,
                                              cfg.max_samples), {})
           /\ log = << "store", "return" >>
           /\ ~SyntheticInvoked

C1_Witness ==
    /\ pc = "done"
    /\ cfg.use_database
    /\ s1_outcome = "clean"
    /\ cfg.min_samples = 2
    /\ StoreHolds >= 2
    /\ result.src = "store"
    /\ Len(result.X) = 2

IsSynthetic(data, n) ==
    /\ data.src = "synthetic"
    /\ Len(data.X) = n
    /\ Len(data.y) = Len(data.X)
    /\ \A i \in 1..Len(data.y) : data.y[i] \in {0, 1, 2}

StoreEmptyOrUnreachable == db0 = EmptyStore \/ s1_outcome = "connect_failed"

\* C2 as stated: with the store empty or not connectable and the remote
\* fetch disabled, load_data returns the output of generate_synthetic_data,
\* a non-empty dataset of exactly synthetic_samples rows with one label in
\* {0,1,2} per row.
C2_AlwaysSynthetic ==
    (pc = "done" /\ ~cfg.fetch_historical_data /\ StoreEmptyOrUnreachable)
        => (IsSynthetic(result, cfg.synthetic_samples) /\ Len(result.X) > 0)

\* C2 amended: with the store empty or not connectable, the remote fetch
\* disabled, min_samples at least 1 and synthetic_samples at least 1,
\* load_data returns the output of generate_synthetic_data, a non-empty
\* dataset of exactly synthetic_samples rows with one label in {0,1,2} per
\* row.
C2_SyntheticFallback ==
    (/\ pc = "done"
     /\ ~cfg.fetch_historical_data
     /\ StoreEmptyOrUnreachable
     /\ cfg.min_samples >= 1
     /\ cfg.synthetic_samples >= 1)
        => (IsSynthetic(result, cfg.synthetic_samples) /\ Len(result.X) > 0)

C2_Witness ==
    /\ pc = "done"
    /\ ~cfg.fetch_historical_data
    /\ cfg.use_database
    /\ s1_outcome = "connect_failed"
    /\ db0 # EmptyStore
    /\ cfg.min_samples >= 1
    /\ cfg.synthetic_samples >= 1
    /\ IsSynthetic(result, cfg.synthetic_samples)

StageNo(event) ==
    CASE event = "store" -> 1
      [] event = "backfill" -> 2
      [] event = "synthetic" -> 3
      [] event = "return" -> 4

\* C3: the stages are attempted in the strict order store query, remote
\* backfill, synthetic generation, each at most once; a later stage starts
\* only when no earlier stage has returned a dataset, nothing runs after a
\* return, and the run ends with a return.
C3_StrictOrder ==
    /\ \A i, j \in 1..Len(log) : i < j => StageNo(log[i]) < StageNo(log[j])
    /\ pc = "done" <=> (log # << >> /\ log[Len(log)] = "return")

C3_Witness ==
    /\ pc = "done"
    /\ log = << "store", "backfill", "synthetic", "return" >>

Positions ==
    {"start", "s1_connect", "s1_query", "s2_check", "seed_connect", "seed_fetch",
     "seed_league", "seed_match", "seed_commit", "seed_except", "s2_connect",
     "s2_query", "s3", "done"}

\* what the step at the current position needs in order to run
Runnable ==
    CASE pc = "seed_league" -> matches # << >>
      [] pc = "seed_match" -> mi \in 1..Len(matches)
      [] pc = "seed_commit" -> batch \in 1..Len(RunBatches)
      [] pc = "s2_query" -> cfg.seasons # << >>
      [] OTHER -> pc \in Positions

\* the longest run: every stage, and every batch fetched, upserted and committed
StepBound == 9 + 5 * Len(RunBatches)

C5_SampleGate ==
    result.src = "store" => Len(result.X) >= cfg.min_samples

C5_Witness ==
    /\ pc = "done"
    /\ result.src = "store"
    /\ "backfill" \in Range(log)
    /\ cfg.min_samples = 2
    /\ Len(result.X) = 2
    /\ StoreHolds < 2

\* C6: when one (league, season) batch raises, the orchestrator goes on
\* with the next batch, so that when seed_historical_matches returns every
\* batch of the run has been fetched.
C6_ContinuesWithNextBatch ==
    seed_state = "returned" => Len(batch_log) = Len(RunBatches)

\* C7: once seed_historical_matches has ended, the store holds exactly the
\* batches that were committed, each with all of its league, team and
\* fixture upserts, and nothing of any other batch; a later failure undoes
\* no committed batch, and the seeding connection (with its transaction) is
\* closed.
C7_BatchAtomic ==
    seed_state \in {"returned", "raised"} => (db = expected /\ open["seed"] = 0)

C7_Witness ==
    /\ seed_state = "returned"
    /\ batch_log = << "committed", "rolled_back" >>
    /\ totals = << 3, 3 >>
    /\ db = expected
    /\ db # db0

TotalOpened == opened["loader1"] + opened["seed"] + opened["loader2"]

\* C8 as stated: at most one database connection is opened over the whole
\* run.
C8_SingleConnection == TotalOpened <= 1

\* C8 amended: the store query, the seeding step and the re-query each open
\* at most one connection of their own, so a run opens at most three.
C8_OneConnectionPerStep ==
    /\ \A o \in Openers : opened[o] <= 1
    /\ TotalOpened <= 3

C8_Witness ==
    /\ pc = "done"
    /\ \A o \in Openers : opened[o] = 1

(***************************************************************************)
(* The rate limit of one FootballDataOrgFetcher, with time passing between *)
(* the lines of _throttle and between requests.                            *)
(***************************************************************************)
MaxRequests == 3
MaxClock == 24

\* the trainer's configuration of _default_config, thresholds scaled down
DefaultConfig ==
    [use_database |-> TRUE, fetch_historical_data |-> TRUE, min_samples |-> 1,
     max_samples |-> 0, synthetic_samples |-> 1,
     leagues |-> << "PL", "PD" >>, seasons |-> << LastSeason, FirstSeason >>,
     api_key |-> TRUE]

\* the cascade at rest, no run of load_data under way
RunIdle ==
    /\ cfg = DefaultConfig
    /\ db0 = db
    /\ txdb = EmptyStore
    /\ opened = [o \in Openers |-> 0]
    /\ open = [o \in Openers |-> 0]
    /\ loader = FALSE
    /\ batch = 0
    /\ mi = 0
    /\ league_id = None
    /\ totals = << 0, 0 >>
    /\ result = NoResult
    /\ log = << >>
    /\ s1_outcome = "none"
    /\ batch_log = << >>
    /\ expected = db
    /\ seed_state = "idle"
    /\ steps = 0

CascadeIdle == RunIdle /\ UnitIdle

runVars == << cfg, db0, txdb, opened, open, loader, batch, mi, league_id, totals,
             result, log, s1_outcome, batch_log, expected, seed_state, steps >>
cascadeVars == << runVars, unitVars >>

ThrottleInit ==
    /\ db = EmptyStore
    /\ CascadeIdle
    /\ matches = << >>
    /\ db_once = EmptyStore
    /\ pc = "t_idle"
    /\ last_request_at = 0
    /\ clock \in StartClock..(StartClock + 2)
    /\ elapsed = 0
    /\ issued = << >>
    /\ slept = << >>

\* time passes
Tick ==
    /\ clock < MaxClock
    /\ clock' = clock + 1
    /\ UNCHANGED << pc, last_request_at, elapsed, issued, slept, db, matches, db_once >>
    /\ UNCHANGED cascadeVars

\* _get calls _throttle; line 46
ThrottleBegin ==
    /\ pc = "t_idle"
    /\ Len(issued) < MaxRequests
    /\ elapsed' = clock - last_request_at
    /\ pc' = "t_sleep"
    /\ UNCHANGED << clock, last_request_at, issued, slept, db, matches, db_once >>
    /\ UNCHANGED cascadeVars

\* lines 47-48: time.sleep returns after the time asked for, or later
ThrottleSleep ==
    /\ pc = "t_sleep"
    /\ \E late \in 0..1 :
         clock' = clock + SleepFor(elapsed) + (IF SleepFor(elapsed) > 0 THEN late ELSE 0)
    /\ slept' = Append(slept, SleepFor(elapsed))
    /\ pc' = "t_stamp"
    /\ UNCHANGED << last_request_at, elapsed, issued, db, matches, db_once >>
    /\ UNCHANGED cascadeVars

\* line 49, and the request of lines 59-62 issued
ThrottleStamp ==
    /\ pc = "t_stamp"
    /\ last_request_at' = clock
    /\ issued' = Append(issued, clock)
    /\ pc' = "t_idle"
    /\ UNCHANGED << clock, elapsed, slept, db, matches, db_once >>
    /\ UNCHANGED cascadeVars

ThrottleNext == Tick \/ ThrottleBegin \/ ThrottleSleep \/ ThrottleStamp

SpecThrottle == ThrottleInit /\ [][ThrottleNext]_vars

\* C9: of any two consecutive requests of one fetcher the second is issued
\* at least min_interval_seconds after the first, _throttle having slept
\* whenever less than the interval had passed, and the first request is not
\* delayed.
C9_MinInterval ==
    /\ \A i \in 2..Len(issued) : issued[i] - issued[i - 1] >= MinInterval
    /\ Len(slept) >= 1 => slept[1] = 0

C9_Witness ==
    /\ Len(issued) = 3
    /\ slept[2] > 0
    /\ issued[2] - issued[1] = MinInterval
    /\ slept[3] = 0
    /\ issued[3] - issued[2] > MinInterval

(***************************************************************************)
(* Seeding one list of match records into the store, twice.                *)
(***************************************************************************)
MaxRecords == 2

\* a team object as the remote source may give it, renamed or not
TeamAs(i, renamed) ==
    [id |-> i, name |-> IF renamed THEN "Renamed" ELSE TeamNames[i],
     shortName |-> IF renamed THEN NoText ELSE "FC"]

\* match records sharing identifiers, teams and competition
Records ==
    { [RemoteMatch(id, LastSeason, goals[1], goals[2], 1, 2, "PL", LastSeason)
         EXCEPT !.homeTeam = TeamAs(h[1], h[2]), !.awayTeam = TeamAs(2, a)] :
         id \in {11, 12}, goals \in {<< 2, 1 >>, << None, None >>},
         h \in {<< 1, FALSE >>, << 1, TRUE >>, << 3, FALSE >>}, a \in BOOLEAN }

RecordLists == UNION {[1..n -> Records] : n \in 0..MaxRecords}

\* seed_historical_matches for one (league, season) answer, committed
SeedStore(s, list, season) == IF list = << >> THEN s ELSE UpsertBatch(s, list, season)

UpsertInit ==
    /\ \E k \in 0..1 : db = PreStored(k)
    /\ CascadeIdle
    /\ matches \in RecordLists
    /\ db_once = EmptyStore
    /\ pc = "u_start"
    /\ last_request_at = 0
    /\ clock = StartClock
    /\ elapsed = 0
    /\ issued = << >>
    /\ slept = << >>

SeedOnce ==
    /\ pc = "u_start"
    /\ db' = SeedStore(db, matches, LastSeason)
    /\ db_once' = db'
    /\ pc' = "u_once"
    /\ UNCHANGED << matches, clock, last_request_at, elapsed, issued, slept >>
    /\ UNCHANGED cascadeVars

SeedAgain ==
    /\ pc = "u_once"
    /\ db' = SeedStore(db, matches, LastSeason)
    /\ pc' = "u_twice"
    /\ UNCHANGED << matches, db_once, clock, last_request_at, elapsed, issued, slept >>
    /\ UNCHANGED cascadeVars

UpsertNext == SeedOnce \/ SeedAgain

SpecUpsert == UpsertInit /\ [][UpsertNext]_vars

UniqueKey(table) == \A r1, r2 \in table : r1.externalId = r2.externalId => r1 = r2

\* C10: seeding the same list of match records twice leaves the store as
\* seeding it once does, and the store holds at most one fixture row per
\* external match identifier and at most one team row per external team
\* identifier.
C10_Idempotent ==
    /\ pc = "u_twice" => db = db_once
    /\ UniqueKey(db.fixtures)
    /\ UniqueKey(db.teams)

C10_Witness ==
    /\ pc = "u_twice"
    /\ Len(matches) = 2
    /\ matches[1].id = matches[2].id
    /\ matches[1].homeTeam # matches[2].homeTeam
    /\ db_once # PreStored(1)
    /\ Cardinality(db.fixtures) = 1
    /\ db = db_once

(***************************************************************************)
(* DatabaseLoader.prepare_training_data, match by match.                   *)
(***************************************************************************)
\* the fetcher at rest
FetcherIdle ==
    /\ matches = << >>
    /\ db_once = EmptyStore
    /\ last_request_at = 0
    /\ clock = StartClock
    /\ elapsed = 0
    /\ issued = << >>
    /\ slept = << >>

fetcherVars == << matches, db_once, last_request_at, clock, elapsed, issued, slept >>

\* np.array(features_list), np.array(labels)
Arrays(X, y) == [kind |-> "arrays", X |-> X, y |-> y]

PrepareInit ==
    /\ \E k \in 0..MaxStored : db = PreStored(k)
    /\ RunIdle
    /\ FetcherIdle
    /\ pc = "p_start"
    /\ \E min_date \in {0, Stage1MinDate}, limit \in 0..MaxLimit :
         call = [fn |-> "prepare_training_data", min_date |-> min_date,
                 leagues |-> << "PL", "PD" >>, limit |-> limit, matches_df |-> << >>]
    /\ ret = NoReturn
    /\ idx = 0
    /\ features_list = << >>
    /\ labels = << >>
    /\ skipped = << >>
    /\ files = {}

\* lines 426-434: the matches loaded (none when the query fails), and the
\* early return on an empty frame
PrepLoad ==
    /\ pc = "p_start"
    /\ \E fails \in BOOLEAN :
         LET rows == IF fails THEN << >>
                     ELSE LoadFinishedMatches(db, call.min_date, call.leagues, call.limit)
         IN /\ call' = [call EXCEPT !.matches_df = rows]
            /\ IF rows = << >>
               THEN /\ ret' = Arrays(<< >>, << >>)
                    /\ pc' = "p_done"
                    /\ idx' = idx
               ELSE /\ ret' = ret
                    /\ pc' = "p_extract"
                    /\ idx' = 1
    /\ UNCHANGED << db, features_list, labels, skipped, files, runVars, fetcherVars >>

\* for idx, match in matches_df.iterrows(): the next match, or the end of the loop
NextMatch(i, n) ==
    IF i < n THEN [pc |-> "p_extract", idx |-> i + 1] ELSE [pc |-> "p_return", idx |-> i]

\* mutant of Handler: the except clause ends the loop
HandlerBreak(i, n) == [pc |-> "p_return", idx |-> i]

\* lines 518-520: except Exception ... continue
Handler(i, n) == NextMatch(i, n)

\* lines 446-508: the statistics and the head-to-head history loaded, the
\* features extracted and appended to features_list, or an exception raised
\* before the append
PrepExtract ==
    /\ pc = "p_extract"
    /\ \E raises \in BOOLEAN :
         IF raises
         THEN /\ skipped' = Append(skipped, "extract")
              /\ pc' = Handler(idx, Len(call.matches_df)).pc
              /\ idx' = Handler(idx, Len(call.matches_df)).idx
              /\ features_list' = features_list
         ELSE /\ features_list' = Append(features_list, call.matches_df[idx].externalId)
              /\ pc' = "p_label"
              /\ UNCHANGED << idx, skipped >>
    /\ UNCHANGED << db, call, ret, labels, files, runVars, fetcherVars >>

\* lines 510-516: the outcome appended to labels, or an exception raised
\* after the append to features_list
PrepLabel ==
    /\ pc = "p_label"
    /\ \E raises \in BOOLEAN :
         IF raises
         THEN /\ skipped' = Append(skipped, "label")
              /\ pc' = Handler(idx, Len(call.matches_df)).pc
              /\ idx' = Handler(idx, Len(call.matches_df)).idx
              /\ labels' = labels
         ELSE /\ labels' = Append(labels, Label(call.matches_df[idx].homeGoals,
                                                call.matches_df[idx].awayGoals))
              /\ skipped' = Append(skipped, "ok")
              /\ pc' = NextMatch(idx, Len(call.matches_df)).pc
              /\ idx' = NextMatch(idx, Len(call.matches_df)).idx
    /\ UNCHANGED << db, call, ret, features_list, files, runVars, fetcherVars >>

\* lines 522-528
PrepReturn ==
    /\ pc = "p_return"
    /\ ret' = Arrays(features_list, labels)
    /\ pc' = "p_done"
    /\ UNCHANGED << db, call, idx, features_list, labels, skipped, files, runVars, fetcherVars >>

PrepareNext == PrepLoad \/ PrepExtract \/ PrepLabel \/ PrepReturn

SpecPrepare == PrepareInit /\ [][PrepareNext]_vars

\* C11: a match whose feature extraction raises contributes no row, every
\* match of the frame is still taken in turn, every match whose step met no
\* exception has its row, and when extraction is the only thing that failed
\* the arrays are those of the loaded matches without the failing ones.
C11_SkipsAndContinues ==
    pc = "p_done" =>
        LET rows == call.matches_df
            failed == {i \in 1..Len(skipped) : skipped[i] = "extract"}
        IN /\ Len(skipped) = Len(rows)
           /\ \A i \in 1..Len(skipped) :
                /\ skipped[i] = "extract" => rows[i].externalId \notin Range(ret.X)
                /\ skipped[i] = "ok" => rows[i].externalId \in Range(ret.X)
           /\ (\A i \in 1..Len(skipped) : skipped[i] # "label")
                 => /\ ret.X = PrepareTrainingData(rows, failed).X
                    /\ ret.y = PrepareTrainingData(rows, failed).y

C11_Witness ==
    /\ pc = "p_done"
    /\ skipped = << "ok", "extract", "ok" >>
    /\ Len(ret.X) = 2
    /\ ret.X[2] = call.matches_df[3].externalId

\* C12: whichever matches fail, and wherever in the per-match step, the
\* arrays returned have one label per feature row, and the label at each
\* position is the outcome of the match the feature row at that position
\* was extracted from.
C12_PairedOneToOne ==
    pc = "p_done" =>
        /\ Len(ret.X) = Len(ret.y)
        /\ \A i \in 1..Len(ret.X) :
             \E r \in Range(call.matches_df) :
                /\ r.externalId = ret.X[i]
                /\ i <= Len(ret.y)
                /\ ret.y[i] = Label(r.homeGoals, r.awayGoals)

(***************************************************************************)
(* Numbers that Python computes as floats are kept as exact fractions.     *)
(***************************************************************************)
Frac(n, d) == [n |-> n, d |-> d]
FracEq(a, b) == a.n * b.d = b.n * a.d
FracLe(a, b) == a.n * b.d <= b.n * a.d
FracMin(a, b) == IF FracLe(a, b) THEN a ELSE b
FracAdd(a, b) == Frac(a.n * b.d + b.n * a.d, a.d * b.d)
FracSub(a, b) == Frac(a.n * b.d - b.n * a.d, a.d * b.d)
FracDiv(a, k) == Frac(a.n, a.d * k)
Whole(k) == Frac(k, 1)

(***************************************************************************)
(* DatabaseLoader.load_team_stats and _calculate_team_stats.               *)
(***************************************************************************)
MaxWindow == 3

\* an exception leaving the function called
Raised == [exception |-> "TypeError"]

\* the empty dictionary
EmptyDict == [k \in {} |-> 0]

\* rows of the statistics query, most recent first: the venue of the team,
\* the goals (homeGoals possibly NULL) and the standings position joined in
StatsRows(league_position) ==
    [venue : {"HOME", "AWAY"}, homeGoals : {None, 0, 1}, awayGoals : {0},
     league_position : {league_position}]

Windows(league_position) ==
    UNION {[1..n -> StatsRows(league_position)] : n \in 0..MaxWindow}

\* lines 272-274
TeamGoals(match) == IF match.venue = "HOME" THEN match.homeGoals ELSE match.awayGoals
OppGoals(match) == IF match.venue = "HOME" THEN match.awayGoals ELSE match.homeGoals

\* lines 279, 285, 291: the branch taken
Outcome(team_goals, opp_goals) ==
    IF team_goals > opp_goals THEN "W" ELSE IF team_goals = opp_goals THEN "D" ELSE "L"

\* mutant of Points: a draw earns nothing
PointsDrawNone(outcome) == IF outcome = "W" THEN 3 ELSE 0

\* lines 281, 287: stats['points'] += 3, += 1
Points(outcome) == IF outcome = "W" THEN 3 ELSE IF outcome = "D" THEN 1 ELSE 0

\* lines 255-269: the counters before the pass
StatsStart(rows) ==
    [matches_played |-> Len(rows), wins |-> 0, draws |-> 0, losses |-> 0,
     goals_scored |-> 0, goals_conceded |-> 0, points |-> 0, form |-> << >>,
     current_streak |-> 0, unbeaten |-> 0]

\* lines 272-295: the body of the loop for one match
Tally(acc, match) ==
    LET o == Outcome(TeamGoals(match), OppGoals(match))
    IN [acc EXCEPT !.goals_scored = @ + TeamGoals(match),
                   !.goals_conceded = @ + OppGoals(match),
                   !.wins = @ + (IF o = "W" THEN 1 ELSE 0),
                   !.draws = @ + (IF o = "D" THEN 1 ELSE 0),
                   !.losses = @ + (IF o = "L" THEN 1 ELSE 0),
                   !.points = @ + Points(o),
                   !.form = Append(@, o),
                   !.current_streak = IF o = "W" THEN @ + 1 ELSE 0,
                   !.unbeaten = IF o = "L" THEN 0 ELSE @ + 1]

\* line 271: for match in matches
RECURSIVE Pass(_, _, _)
Pass(acc, rows, i) ==
    IF i > Len(rows) THEN acc ELSE Pass(Tally(acc, rows[i]), rows, i + 1)

\* a goal count of None makes the additions of lines 276-277 raise TypeError
TallyRaises(rows) ==
    \E i \in 1..Len(rows) : rows[i].homeGoals = None \/ rows[i].awayGoals = None

\* _calculate_team_stats
CalculateTeamStats(rows) ==
    IF TallyRaises(rows) THEN Raised
    ELSE LET acc == Pass(StatsStart(rows), rows, 1)
             played == acc.matches_played
         IN [matches_played |-> played,
             wins |-> acc.wins, draws |-> acc.draws, losses |-> acc.losses,
             goals_scored |-> acc.goals_scored, goals_conceded |-> acc.goals_conceded,
             points |-> acc.points,
             form |-> Prefix(acc.form, 5),
             win_streak |-> acc.current_streak,
             unbeaten_streak |-> acc.unbeaten,
             points_per_game |-> IF played > 0 THEN Frac(acc.points, played) ELSE Whole(0),
             goals_per_game |-> IF played > 0 THEN Frac(acc.goals_scored, played) ELSE Whole(0),
             goals_conceded_per_game |->
                 IF played > 0 THEN Frac(acc.goals_conceded, played) ELSE Whole(0),
             league_position |->
                 IF rows # << >> /\ rows[1].league_position \notin {None, 0}
                 THEN rows[1].league_position ELSE 10]

\* _default_team_stats
DefaultTeamStats ==
    [matches_played |-> 0, wins |-> 0, draws |-> 0, losses |-> 0,
     goals_scored |-> 0, goals_conceded |-> 0, points |-> 0,
     form |-> << "D", "D", "D", "D", "D" >>,
     win_streak |-> 0, unbeaten_streak |-> 0,
     points_per_game |-> Whole(1), goals_per_game |-> Whole(1),
     goals_conceded_per_game |-> Whole(1), league_position |-> 10]

\* load_team_stats: connection is self.connection being set, fails is the
\* query raising, rows what it fetches
LoadTeamStats(connection, fails, rows) ==
    IF ~connection THEN EmptyDict
    ELSE IF fails THEN DefaultTeamStats
    ELSE IF rows = << >> THEN DefaultTeamStats
    ELSE IF CalculateTeamStats(rows) = Raised THEN DefaultTeamStats
    ELSE CalculateTeamStats(rows)

TeamStatsCalls ==
    { [fn |-> c[1], connection |-> c[2], fails |-> c[3], matches |-> w] :
        c \in {<< "load_team_stats", FALSE, FALSE >>, << "load_team_stats", TRUE, TRUE >>,
               << "load_team_stats", TRUE, FALSE >>, << "_calculate_team_stats", TRUE, FALSE >>},
        w \in Windows(None) \cup Windows(4) }

TeamStatsInit ==
    /\ db = EmptyStore
    /\ RunIdle
    /\ FetcherIdle
    /\ pc = "s_start"
    /\ call \in TeamStatsCalls
    /\ ret = NoReturn
    /\ idx = 0
    /\ features_list = << >>
    /\ labels = << >>
    /\ skipped = << >>
    /\ files = {}

TeamStatsLoad ==
    /\ pc = "s_start"
    /\ call.fn = "load_team_stats"
    /\ ret' = LoadTeamStats(call.connection, call.fails, call.matches)
    /\ pc' = "s_done"
    /\ UNCHANGED << db, call, idx, features_list, labels, skipped, files, runVars, fetcherVars >>

TeamStatsCalculate ==
    /\ pc = "s_start"
    /\ call.fn = "_calculate_team_stats"
    /\ ret' = CalculateTeamStats(call.matches)
    /\ pc' = "s_done"
    /\ UNCHANGED << db, call, idx, features_list, labels, skipped, files, runVars, fetcherVars >>

TeamStatsNext == TeamStatsLoad \/ TeamStatsCalculate

SpecTeamStats == TeamStatsInit /\ [][TeamStatsNext]_vars

SnapshotKeys == DOMAIN DefaultTeamStats

\* C13: whatever window _calculate_team_stats is given, the statistics it
\* returns have wins + draws + losses = matches_played and
\* points = 3 * wins + draws.
C13_TalliesAgree ==
    (pc = "s_done" /\ ret # Raised /\ ret # EmptyDict) =>
        /\ ret.wins + ret.draws + ret.losses = ret.matches_played
        /\ ret.points = 3 * ret.wins + ret.draws
        /\ call.fn = "_calculate_team_stats" => ret.matches_played = Len(call.matches)

C13_Witness ==
    /\ pc = "s_done"
    /\ call.fn = "_calculate_team_stats"
    /\ Len(call.matches) = 3
    /\ ret # Raised
    /\ ret.wins = 1
    /\ ret.draws = 1
    /\ ret.losses = 1
    /\ ret.points = 4

\* the results of a window, most recent first
Results(rows) ==
    [i \in 1..Len(rows) |-> Outcome(TeamGoals(rows[i]), OppGoals(rows[i]))]

\* how many entries from the first on lie in the set
RECURSIVE LeadingRun(_, _)
LeadingRun(seq, set) ==
    IF seq = << >> \/ seq[1] \notin set THEN 0 ELSE 1 + LeadingRun(Tail(seq), set)

\* C14: for a window given most recent first, win_streak is the number of
\* consecutive wins counted from the most recent match backward and
\* unbeaten_streak the number of consecutive matches without a loss counted
\* from the most recent match backward.
C14_StreaksFromMostRecent ==
    (pc = "s_done" /\ call.fn = "_calculate_team_stats" /\ ret # Raised) =>
        /\ ret.win_streak = LeadingRun(Results(call.matches), {"W"})
        /\ ret.unbeaten_streak = LeadingRun(Results(call.matches), {"W", "D"})

\* C15: load_team_stats never raises and returns a complete snapshot, and
\* with no qualifying match before the cutoff, or when the lookup cannot be
\* performed, the snapshot is exactly the fixed default.
C15_AlwaysCompleteSnapshot ==
    (pc = "s_done" /\ call.fn = "load_team_stats") =>
        /\ ret # Raised
        /\ DOMAIN ret = SnapshotKeys
        /\ (call.matches = << >> \/ ~call.connection \/ call.fails)
              => ret = DefaultTeamStats

(***************************************************************************)
(* DatabaseLoader.load_head_to_head and the three head-to-head features    *)
(* of FeatureEngineer.                                                     *)
(***************************************************************************)
MaxMeetings == 6

\* limit: int = 5 of load_head_to_head
H2HLimit == 5

\* h2h_matches[-5:]
LastMeetings == 5

\* fixtures rows of the two teams: team 1 winning at home, team 2 winning at
\* home, a draw, team 2 winning away, team 2 winning at home by 4 to 3
Meetings ==
    { [homeTeamId |-> g[1], awayTeamId |-> 3 - g[1], homeGoals |-> g[2], awayGoals |-> g[3]] :
        g \in {<< 1, 1, 0 >>, << 2, 2, 0 >>, << 1, 1, 1 >>, << 1, 0, 3 >>, << 2, 4, 3 >>} }

\* the history of the pair before the cutoff, most recent first
Histories == UNION {[1..n -> Meetings] : n \in 0..MaxMeetings}

\* lines 390-395
H2HResult(homeGoals, awayGoals) ==
    IF homeGoals > awayGoals THEN "HOME_WIN"
    ELSE IF homeGoals < awayGoals THEN "AWAY_WIN" ELSE "DRAW"

\* load_head_to_head on an open connection: ORDER BY kickoff DESC LIMIT %s,
\* and one result per row
LoadHeadToHead(history, limit) ==
    [i \in 1..Len(Prefix(history, limit)) |->
        [home_team_id |-> history[i].homeTeamId,
         away_team_id |-> history[i].awayTeamId,
         home_goals |-> history[i].homeGoals,
         away_goals |-> history[i].awayGoals,
         result |-> H2HResult(history[i].homeGoals, history[i].awayGoals)]]

\* the Python slice s[-n:]
LastOf(s, n) == IF Len(s) <= n THEN s ELSE SubSeq(s, Len(s) - n + 1, Len(s))

RECURSIVE SeqSum(_)
SeqSum(s) == IF s = << >> THEN 0 ELSE Head(s) + SeqSum(Tail(s))

\* _calc_h2h_form_score; the score is counted in halves
CalcH2HFormScore(h2h_matches, home_team_id) ==
    IF h2h_matches = << >> THEN Frac(1, 2)
    ELSE LET read == LastOf(h2h_matches, LastMeetings)
             halves == [i \in 1..Len(read) |->
                          IF read[i].result = "HOME_WIN"
                          THEN (IF read[i].home_team_id = home_team_id THEN 2 ELSE 0)
                          ELSE IF read[i].result = "DRAW" THEN 1 ELSE 0]
             count == Len(read)
         IN IF count > 0 THEN Frac(SeqSum(halves), 2 * count) ELSE Frac(1, 2)

\* _count_h2h_wins
CountH2HWins(h2h_matches, home_team_id) ==
    IF h2h_matches = << >> THEN Frac(1, 2)
    ELSE LET read == LastOf(h2h_matches, LastMeetings)
             wins == [i \in 1..Len(read) |->
                        IF read[i].result = "HOME_WIN" /\ read[i].home_team_id = home_team_id
                        THEN 1 ELSE 0]
         IN Frac(SeqSum(wins), 5)

\* mutant of CalcH2HAvgGoals: the sum divided by the number of meetings summed
CalcH2HAvgGoalsBySummed(h2h_matches) ==
    IF h2h_matches = << >> THEN Frac(1, 2)
    ELSE LET read == LastOf(h2h_matches, LastMeetings)
             goals == [i \in 1..Len(read) |-> read[i].home_goals + read[i].away_goals]
         IN FracDiv(Frac(SeqSum(goals), Len(read)), 5)

\* _calc_h2h_avg_goals
CalcH2HAvgGoals(h2h_matches) ==
    IF h2h_matches = << >> THEN Frac(1, 2)
    ELSE LET read == LastOf(h2h_matches, LastMeetings)
             goals == [i \in 1..Len(read) |-> read[i].home_goals + read[i].away_goals]
         IN FracDiv(Frac(SeqSum(goals), Len(h2h_matches)), 5)

H2HInit ==
    /\ db = EmptyStore
    /\ RunIdle
    /\ FetcherIdle
    /\ pc = "h_start"
    /\ \E history \in Histories, limit \in {H2HLimit, MaxMeetings} :
         call = [fn |-> "load_head_to_head", history |-> history, limit |-> limit,
                 home_team_id |-> 1, h2h_matches |-> << >>]
    /\ ret = NoReturn
    /\ idx = 0
    /\ features_list = << >>
    /\ labels = << >>
    /\ skipped = << >>
    /\ files = {}

\* h2h = self.load_head_to_head(...)
H2HLoad ==
    /\ pc = "h_start"
    /\ call' = [call EXCEPT !.h2h_matches = LoadHeadToHead(call.history, call.limit)]
    /\ pc' = "h_loaded"
    /\ UNCHANGED << db, ret, idx, features_list, labels, skipped, files, runVars, fetcherVars >>

\* lines 116-118 of extract_features
H2HFeatures ==
    /\ pc = "h_loaded"
    /\ ret' = [h2h_form_score |-> CalcH2HFormScore(call.h2h_matches, call.home_team_id),
               home_h2h_wins |-> CountH2HWins(call.h2h_matches, call.home_team_id),
               h2h_avg_goals |-> CalcH2HAvgGoals(call.h2h_matches)]
    /\ pc' = "h_done"
    /\ UNCHANGED << db, call, idx, features_list, labels, skipped, files, runVars, fetcherVars >>

H2HNext == H2HLoad \/ H2HFeatures

SpecH2H == H2HInit /\ [][H2HNext]_vars

\* C16: for an empty head-to-head history the form score is 0.5, the
\* average-goals feature 0.5 and the win count 0.
C16_EmptyHistoryDefaults ==
    (pc = "h_done" /\ call.h2h_matches = << >>) =>
        /\ FracEq(ret.h2h_form_score, Frac(1, 2))
        /\ FracEq(ret.h2h_avg_goals, Frac(1, 2))
        /\ FracEq(ret.home_h2h_wins, Whole(0))

\* what the meetings at the positions in S of a list amount to
RECURSIVE GoalsAt(_, _)
GoalsAt(list, S) ==
    IF S = {} THEN 0
    ELSE LET i == CHOOSE j \in S : TRUE
         IN list[i].home_goals + list[i].away_goals + GoalsAt(list, S \ {i})

HomeWinsAt(list, S, team) ==
    Cardinality({i \in S : list[i].home_goals > list[i].away_goals
                            /\ list[i].home_team_id = team})

DrawsAt(list, S) == Cardinality({i \in S : list[i].home_goals = list[i].away_goals})

\* the positions of the 5 most recent meetings of a most-recent-first list
MostRecent(list) == {i \in 1..Len(list) : i <= 5}

\* the positions the three functions read: the last 5 entries of the list
Considered(list) == {i \in 1..Len(list) : i > Len(list) - 5}

\* C17: for a most-recent-first list of any length the form score, the win
\* count and the goal sum are those of the 5 most recent meetings, the first
\* 5 entries of the list.
C17_MostRecentFive ==
    (pc = "h_done" /\ call.h2h_matches # << >>) =>
        LET list == call.h2h_matches
            S == MostRecent(list)
        IN /\ FracEq(ret.h2h_form_score,
                     Frac(2 * HomeWinsAt(list, S, call.home_team_id) + DrawsAt(list, S),
                          2 * Cardinality(S)))
           /\ FracEq(ret.home_h2h_wins, Frac(HomeWinsAt(list, S, call.home_team_id), 5))
           /\ FracEq(ret.h2h_avg_goals, Frac(GoalsAt(list, S), 5 * Len(list)))

InUnitInterval(x) == FracLe(Whole(0), x) /\ FracLe(x, Whole(1))

\* C28: for every head-to-head list with non-negative goal counts, each of
\* the three head-to-head features (form score, win count, average goals)
\* lies in [0, 1].
C28_H2HFeaturesInUnitInterval ==
    (pc = "h_done") =>
        /\ InUnitInterval(ret.h2h_form_score)
        /\ InUnitInterval(ret.home_h2h_wins)
        /\ InUnitInterval(ret.h2h_avg_goals)

(***************************************************************************)
(* FeatureEngineer.extract_features.                                       *)
(***************************************************************************)
\* self.feature_names of FeatureEngineer.__init__, what get_feature_names returns
FeatureNames ==
    << "home_form_score", "away_form_score", "home_points_per_game",
       "away_points_per_game", "home_goals_per_game", "away_goals_per_game",
       "home_league_position", "away_league_position", "home_goal_difference",
       "away_goal_difference", "home_xg", "away_xg",
       "h2h_form_score", "home_h2h_wins", "h2h_avg_goals",
       "home_advantage", "home_rest_days", "away_rest_days",
       "home_injury_count", "away_injury_count", "home_injury_impact",
       "away_injury_impact",
       "home_win_streak", "away_win_streak", "home_unbeaten_streak",
       "away_unbeaten_streak",
       "home_manager_tenure", "away_manager_tenure",
       "weather_impact", "temperature",
       "market_home_prob" >>

\* np.random.randn(n_samples, 30): the columns of the synthetic matrix
SyntheticColumns == 30

\* one row of the synthetic matrix
SyntheticRow == [i \in 1..SyntheticColumns |-> Whole(0)]

\* dict.get(key, default)
Get(dict, key, default) == IF key \in DOMAIN dict THEN dict[key] ELSE default

\* home_team_data / away_team_data as prepare_training_data builds them
\* from the statistics of a team (lines 465-491)
TeamData(id, stats, xg) ==
    [id |-> id,
     last_results |-> Get(stats, "form", << >>),
     points_per_game |-> Get(stats, "points_per_game", Whole(0)),
     goals_scored_per_game |-> Get(stats, "goals_per_game", Whole(0)),
     league_position |-> Whole(Get(stats, "league_position", 10)),
     goal_difference |->
         Whole(Get(stats, "goals_scored", 0) - Get(stats, "goals_conceded", 0)),
     xg |-> Get(stats, "goals_per_game", xg),
     days_since_last_match |-> Whole(7),
     win_streak |-> Whole(Get(stats, "win_streak", 0)),
     unbeaten_streak |-> Whole(Get(stats, "unbeaten_streak", 0)),
     manager_tenure_days |-> Whole(365)]

\* statistics a team may have: none, the default, two windows
SomeStats ==
    { EmptyDict, DefaultTeamStats,
      CalculateTeamStats(<< [venue |-> "HOME", homeGoals |-> 2, awayGoals |-> 0,
                             league_position |-> 3],
                            [venue |-> "AWAY", homeGoals |-> 1, awayGoals |-> 1,
                             league_position |-> 3] >>),
      CalculateTeamStats(<< [venue |-> "AWAY", homeGoals |-> 3, awayGoals |-> 0,
                             league_position |-> None] >>) }

\* the head-to-head lists tried: none, one meeting, six meetings
SomeH2H ==
    { << >>,
      LoadHeadToHead(<< [homeTeamId |-> 1, awayTeamId |-> 2, homeGoals |-> 2,
                         awayGoals |-> 1] >>, H2HLimit),
      LoadHeadToHead([i \in 1..6 |-> [homeTeamId |-> 1 + (i % 2), awayTeamId |-> 2 - (i % 2),
                                      homeGoals |-> i % 3, awayGoals |-> 1]], 6) }

FeatureCalls ==
    [fn : {"extract_features"},
     home_team_data : {EmptyDict} \cup {TeamData(1, st, Frac(3, 2)) : st \in SomeStats},
     away_team_data : {EmptyDict} \cup {TeamData(2, st, Frac(6, 5)) : st \in SomeStats},
     h2h_data : SomeH2H,
     injury_data : {EmptyDict,
                    [home_count |-> Whole(0), away_count |-> Whole(0),
                     home_impact |-> Whole(0), away_impact |-> Whole(0)],
                    [home_count |-> Whole(7), away_count |-> Whole(2),
                     home_impact |-> Frac(1, 4), away_impact |-> Frac(1, 2)]},
     weather_data : {EmptyDict, [impact |-> Whole(0), temperature |-> Whole(15)]},
     odds_data : {EmptyDict, [home_prob |-> Frac(45, 100)]}]

\* _calc_form_score; the score is counted in halves
CalcFormScore(form_string) ==
    IF form_string = << >> THEN Frac(1, 2)
    ELSE Frac(SeqSum([i \in 1..Len(form_string) |->
                        IF form_string[i] = "W" THEN 2
                        ELSE IF form_string[i] = "D" THEN 1 ELSE 0]),
              2 * Len(form_string))

\* lines 100-105
FormFeatures(c) ==
    << CalcFormScore(Get(c.home_team_data, "last_results", << >>)),
       CalcFormScore(Get(c.away_team_data, "last_results", << >>)),
       Get(c.home_team_data, "points_per_game", Whole(0)),
       Get(c.away_team_data, "points_per_game", Whole(0)),
       Get(c.home_team_data, "goals_scored_per_game", Whole(0)),
       Get(c.away_team_data, "goals_scored_per_game", Whole(0)) >>

\* mutant of StrengthFeatures: five strength features, as the comment counts
StrengthFeaturesFive(c) ==
    << Get(c.home_team_data, "league_position", Whole(10)),
       Get(c.away_team_data, "league_position", Whole(10)),
       FracDiv(Get(c.home_team_data, "goal_difference", Whole(0)), 50),
       FracDiv(Get(c.away_team_data, "goal_difference", Whole(0)), 50),
       Get(c.home_team_data, "xg", Frac(3, 2)) >>

\* lines 108-113
StrengthFeatures(c) ==
    << Get(c.home_team_data, "league_position", Whole(10)),
       Get(c.away_team_data, "league_position", Whole(10)),
       FracDiv(Get(c.home_team_data, "goal_difference", Whole(0)), 50),
       FracDiv(Get(c.away_team_data, "goal_difference", Whole(0)), 50),
       Get(c.home_team_data, "xg", Frac(3, 2)),
       Get(c.away_team_data, "xg", Frac(6, 5)) >>

\* lines 116-118
H2HBlock(c) ==
    << CalcH2HFormScore(c.h2h_data, Get(c.home_team_data, "id", None)),
       CountH2HWins(c.h2h_data, Get(c.home_team_data, "id", None)),
       CalcH2HAvgGoals(c.h2h_data) >>

\* lines 121-123
ContextFeatures(c) ==
    << Whole(1),
       FracMin(FracDiv(Get(c.home_team_data, "days_since_last_match", Whole(7)), 14), Whole(1)),
       FracMin(FracDiv(Get(c.away_team_data, "days_since_last_match", Whole(7)), 14), Whole(1)) >>

\* lines 126-129
InjuryFeatures(c) ==
    << FracMin(FracDiv(Get(c.injury_data, "home_count", Whole(0)), 5), Whole(1)),
       FracMin(FracDiv(Get(c.injury_data, "away_count", Whole(0)), 5), Whole(1)),
       FracSub(Whole(1), Get(c.injury_data, "home_impact", Whole(0))),
       FracSub(Whole(1), Get(c.injury_data, "away_impact", Whole(0))) >>

\* lines 132-135
MomentumFeatures(c) ==
    << FracMin(FracDiv(Get(c.home_team_data, "win_streak", Whole(0)), 5), Whole(1)),
       FracMin(FracDiv(Get(c.away_team_data, "win_streak", Whole(0)), 5), Whole(1)),
       FracMin(FracDiv(Get(c.home_team_data, "unbeaten_streak", Whole(0)), 10), Whole(1)),
       FracMin(FracDiv(Get(c.away_team_data, "unbeaten_streak", Whole(0)), 10), Whole(1)) >>

\* lines 138-139
ManagerialFeatures(c) ==
    << FracMin(FracDiv(Get(c.home_team_data, "manager_tenure_days", Whole(365)), 1000), Whole(1)),
       FracMin(FracDiv(Get(c.away_team_data, "manager_tenure_days", Whole(365)), 1000), Whole(1)) >>

\* lines 142-143
EnvironmentalFeatures(c) ==
    << Get(c.weather_data, "impact", Whole(0)),
       FracDiv(FracAdd(Get(c.weather_data, "temperature", Whole(15)), Whole(30)), 60) >>

\* line 146
MarketFeature(c) == << Get(c.odds_data, "home_prob", Frac(45, 100)) >>

\* extract_features: the appends in the order of the code
ExtractFeatures(c) ==
    FormFeatures(c) \o StrengthFeatures(c) \o H2HBlock(c) \o ContextFeatures(c)
        \o InjuryFeatures(c) \o MomentumFeatures(c) \o ManagerialFeatures(c)
        \o EnvironmentalFeatures(c) \o MarketFeature(c)

FeaturesInit ==
    /\ db = EmptyStore
    /\ RunIdle
    /\ FetcherIdle
    /\ pc = "f_start"
    /\ call \in FeatureCalls
    /\ ret = NoReturn
    /\ idx = 0
    /\ features_list = << >>
    /\ labels = << >>
    /\ skipped = << >>
    /\ files = {}

FeaturesExtract ==
    /\ pc = "f_start"
    /\ ret' = ExtractFeatures(call)
    /\ pc' = "f_done"
    /\ UNCHANGED << db, call, idx, features_list, labels, skipped, files, runVars, fetcherVars >>

FeaturesNext == FeaturesExtract

SpecFeatures == FeaturesInit /\ [][FeaturesNext]_vars

\* x / scale, at most 1
Clamped(x, scale) == IF FracLe(FracDiv(x, scale), Whole(1)) THEN FracDiv(x, scale) ELSE Whole(1)

\* what each name of the canonical list stands for
Named(c) ==
    LET home == c.home_team_data
        away == c.away_team_data
    IN [home_form_score |-> CalcFormScore(Get(home, "last_results", << >>)),
        away_form_score |-> CalcFormScore(Get(away, "last_results", << >>)),
        home_points_per_game |-> Get(home, "points_per_game", Whole(0)),
        away_points_per_game |-> Get(away, "points_per_game", Whole(0)),
        home_goals_per_game |-> Get(home, "goals_scored_per_game", Whole(0)),
        away_goals_per_game |-> Get(away, "goals_scored_per_game", Whole(0)),
        home_league_position |-> Get(home, "league_position", Whole(10)),
        away_league_position |-> Get(away, "league_position", Whole(10)),
        home_goal_difference |-> FracDiv(Get(home, "goal_difference", Whole(0)), 50),
        away_goal_difference |-> FracDiv(Get(away, "goal_difference", Whole(0)), 50),
        home_xg |-> Get(home, "xg", Frac(3, 2)),
        away_xg |-> Get(away, "xg", Frac(6, 5)),
        h2h_form_score |-> CalcH2HFormScore(c.h2h_data, Get(home, "id", None)),
        home_h2h_wins |-> CountH2HWins(c.h2h_data, Get(home, "id", None)),
        h2h_avg_goals |-> CalcH2HAvgGoals(c.h2h_data),
        home_advantage |-> Whole(1),
        home_rest_days |-> Clamped(Get(home, "days_since_last_match", Whole(7)), 14),
        away_rest_days |-> Clamped(Get(away, "days_since_last_match", Whole(7)), 14),
        home_injury_count |-> Clamped(Get(c.injury_data, "home_count", Whole(0)), 5),
        away_injury_count |-> Clamped(Get(c.injury_data, "away_count", Whole(0)), 5),
        home_injury_impact |-> FracSub(Whole(1), Get(c.injury_data, "home_impact", Whole(0))),
        away_injury_impact |-> FracSub(Whole(1), Get(c.injury_data, "away_impact", Whole(0))),
        home_win_streak |-> Clamped(Get(home, "win_streak", Whole(0)), 5),
        away_win_streak |-> Clamped(Get(away, "win_streak", Whole(0)), 5),
        home_unbeaten_streak |-> Clamped(Get(home, "unbeaten_streak", Whole(0)), 10),
        away_unbeaten_streak |-> Clamped(Get(away, "unbeaten_streak", Whole(0)), 10),
        home_manager_tenure |-> Clamped(Get(home, "manager_tenure_days", Whole(365)), 1000),
        away_manager_tenure |-> Clamped(Get(away, "manager_tenure_days", Whole(365)), 1000),
        weather_impact |-> Get(c.weather_data, "impact", Whole(0)),
        temperature |-> FracDiv(FracAdd(Get(c.weather_data, "temperature", Whole(15)),
                                        Whole(30)), 60),
        market_home_prob |-> Get(c.odds_data, "home_prob", Frac(45, 100))]

\* C19: whatever the inputs, empty dictionaries and an empty head-to-head
\* list included, the vector has as many entries as the canonical name list
\* has names, and the entry at each position is the value of the feature
\* named at that position of the list.
C19_VectorFollowsNames ==
    pc = "f_done" =>
        /\ Len(ret) = Len(FeatureNames)
        /\ \A i \in 1..Len(FeatureNames) :
             /\ i <= Len(ret)
             /\ FracEq(ret[i], Named(call)[FeatureNames[i]])
             /\ \A j \in 1..Len(FeatureNames) : FeatureNames[i] = FeatureNames[j] => i = j

C19_Witness ==
    /\ pc = "f_done"
    /\ call.home_team_data = EmptyDict
    /\ call.away_team_data = EmptyDict
    /\ call.h2h_data = << >>
    /\ call.odds_data = EmptyDict
    /\ Len(ret) = 31
    /\ ret[12] = Frac(6, 5)
    /\ ret[31] = Frac(45, 100)

\* C20: the matrix generate_synthetic_data returns has as many columns as
\* the vector extract_features returns has entries, and as the canonical
\* name list has names, so that a dataset has the same width whichever stage
\* of load_data produced it.
C20_SyntheticWidthCanonical ==
    pc = "f_done" =>
        /\ Len(SyntheticRow) = Len(ret)
        /\ Len(SyntheticRow) = Len(FeatureNames)

(***************************************************************************)
(* PoissonGoalsModel: _adjust_lambda and predict_outcome_probs.            *)
(***************************************************************************)
MaxPosition == 20
MaxGoals == 2
MaxWeight == 3

RECURSIVE GCD(_, _)
GCD(a, b) == IF b = 0 THEN a ELSE GCD(b, a % b)

\* a fraction in lowest terms, its denominator positive
Reduced(f) ==
    LET n == IF f.d < 0 THEN 0 - f.n ELSE f.n
        d == IF f.d < 0 THEN 0 - f.d ELSE f.d
        g == GCD(IF n < 0 THEN 0 - n ELSE n, d)
    IN Frac(n \div g, d \div g)

\* float addition and multiplication
FracPlus(a, b) == Reduced(Frac(a.n * b.d + b.n * a.d, a.d * b.d))
FracTimes(a, b) == Reduced(Frac(a.n * b.n, a.d * b.d))

\* floats: finite numbers, the infinities and nan; an exception instead of
\* a value
Num(f) == [kind |-> "num", v |-> f]
Inf == [kind |-> "inf"]
NegInf == [kind |-> "-inf"]
NaN == [kind |-> "nan"]
ZeroDivision == [kind |-> "raised", exception |-> "ZeroDivisionError"]

\* n / d for whole n and d: a division by zero raises ZeroDivisionError on
\* Python numbers (strict) and gives inf, -inf or nan on numpy floats
Divide(n, d, strict) ==
    IF d # 0 THEN Num(Reduced(Frac(n, d)))
    ELSE IF strict THEN ZeroDivision
    ELSE IF n > 0 THEN Inf ELSE IF n < 0 THEN NegInf ELSE NaN

Sign(x) ==
    IF x.kind = "inf" THEN 1 ELSE IF x.kind = "-inf" THEN 0 - 1
    ELSE IF x.v.n > 0 THEN 1 ELSE IF x.v.n < 0 THEN 0 - 1 ELSE 0

\* base_lambda *= factor
Times(x, y) ==
    IF x.kind = "raised" THEN x
    ELSE IF y.kind = "raised" THEN y
    ELSE IF x.kind = "nan" \/ y.kind = "nan" THEN NaN
    ELSE IF x.kind = "num" /\ y.kind = "num" THEN Num(FracTimes(x.v, y.v))
    ELSE IF Sign(x) * Sign(y) > 0 THEN Inf
    ELSE IF Sign(x) * Sign(y) < 0 THEN NegInf ELSE NaN

\* max(0.1, x): x when x > 0.1, else 0.1
MaxTenth(x) ==
    IF x.kind = "raised" THEN x
    ELSE IF x.kind = "inf" THEN Inf
    ELSE IF x.kind = "num" /\ ~FracLe(x.v, Frac(1, 10)) THEN x
    ELSE Num(Frac(1, 10))

\* _adjust_lambda
AdjustLambda(base_lambda, team_features, opponent_features, is_away, strict) ==
    LET team_pos == IF ~is_away THEN team_features[1] ELSE team_features[2]
        opp_pos == IF is_away THEN opponent_features[1] ELSE opponent_features[2]
        adjusted == IF Len(team_features) >= 2 /\ Len(opponent_features) >= 2
                    THEN Times(Num(base_lambda),
                               Divide(19 - team_pos, 19 - opp_pos + 1, strict))
                    ELSE Num(base_lambda)
        sided == IF is_away THEN Times(adjusted, Num(Frac(9, 10))) ELSE adjusted
    IN MaxTenth(sided)

\* mutant of Bucket: a level score counted for the away side
BucketNoDraw(h, a) == IF h > a THEN "HOME" ELSE "AWAY"

\* lines 348-353: where the probability of the score h:a goes
Bucket(h, a) == IF h > a THEN "HOME" ELSE IF h = a THEN "DRAW" ELSE "AWAY"

\* lines 344-353: the pairs (h, a) in the order of the two loops, from the k-th on
RECURSIVE OutcomeLoop(_, _, _, _)
OutcomeLoop(acc, home_goals_dist, away_goals_dist, k) ==
    IF k > Len(home_goals_dist) * Len(away_goals_dist) THEN acc
    ELSE LET h == (k - 1) \div Len(away_goals_dist)
             a == (k - 1) % Len(away_goals_dist)
             prob == FracTimes(home_goals_dist[h + 1], away_goals_dist[a + 1])
             to == Bucket(h, a)
         IN OutcomeLoop([acc EXCEPT ![to] = FracPlus(@, prob)],
                        home_goals_dist, away_goals_dist, k + 1)

\* predict_outcome_probs
PredictOutcomeProbs(home_goals_dist, away_goals_dist) ==
    OutcomeLoop([HOME |-> Whole(0), DRAW |-> Whole(0), AWAY |-> Whole(0)],
                home_goals_dist, away_goals_dist, 1)

\* distributions over the goal counts 0..n-1, in units of 1/MaxWeight
Dists ==
    UNION { {[i \in 1..n |-> Frac(w[i], MaxWeight)] :
               w \in {v \in [1..n -> 0..MaxWeight] : SeqSum(v) = MaxWeight}} :
            n \in 1..(MaxGoals + 1) }

PoissonCalls ==
    { [fn |-> "_adjust_lambda", base_lambda |-> b,
       team_features |-> IF short THEN << tp >> ELSE IF away THEN << 10, tp >> ELSE << tp, 10 >>,
       opponent_features |-> IF away THEN << op, 10 >> ELSE << 10, op >>,
       is_away |-> away, strict |-> strict] :
        b \in {Whole(0), Frac(3, 2)}, tp \in 1..MaxPosition, op \in 1..MaxPosition,
        away \in BOOLEAN, strict \in BOOLEAN, short \in BOOLEAN }
    \cup
    { [fn |-> "predict_outcome_probs", home_goals_dist |-> hd, away_goals_dist |-> ad] :
        hd \in Dists, ad \in Dists }

PoissonInit ==
    /\ db = EmptyStore
    /\ RunIdle
    /\ FetcherIdle
    /\ pc = "l_start"
    /\ call \in PoissonCalls
    /\ ret = NoReturn
    /\ idx = 0
    /\ features_list = << >>
    /\ labels = << >>
    /\ skipped = << >>
    /\ files = {}

PoissonAdjust ==
    /\ pc = "l_start"
    /\ call.fn = "_adjust_lambda"
    /\ ret' = AdjustLambda(call.base_lambda, call.team_features, call.opponent_features,
                           call.is_away, call.strict)
    /\ pc' = "l_done"
    /\ UNCHANGED << db, call, idx, features_list, labels, skipped, files, runVars, fetcherVars >>

PoissonOutcome ==
    /\ pc = "l_start"
    /\ call.fn = "predict_outcome_probs"
    /\ ret' = PredictOutcomeProbs(call.home_goals_dist, call.away_goals_dist)
    /\ pc' = "l_done"
    /\ UNCHANGED << db, call, idx, features_list, labels, skipped, files, runVars, fetcherVars >>

PoissonNext == PoissonAdjust \/ PoissonOutcome

SpecPoisson == PoissonInit /\ [][PoissonNext]_vars

\* C22: for league positions of the team and of its opponent anywhere in
\* 1..20 and any base lambda >= 0, _adjust_lambda completes without an error
\* and returns a value of at least 0.1, for the home and for the away side.
C22_LambdaFloored ==
    (pc = "l_done" /\ call.fn = "_adjust_lambda"
        /\ Len(call.team_features) >= 2
        /\ \A i \in 1..2 : /\ call.team_features[i] \in 1..20
                           /\ call.opponent_features[i] \in 1..20)
        => /\ ret.kind # "raised"
           /\ ret.kind \in {"num", "inf"}
           /\ ret.kind = "num" => FracLe(Frac(1, 10), ret.v)

\* the sum of the entries of a sequence of fractions
RECURSIVE Total(_)
Total(s) == IF s = << >> THEN Whole(0) ELSE FracPlus(Head(s), Total(Tail(s)))

\* the probability of the scores (h, a) that satisfy a relation
RECURSIVE Mass(_, _, _)
Mass(hd, ad, pairs) ==
    IF pairs = {} THEN Whole(0)
    ELSE LET p == CHOOSE q \in pairs : TRUE
         IN FracPlus(FracTimes(hd[p[1] + 1], ad[p[2] + 1]), Mass(hd, ad, pairs \ {p}))

Scores(hd, ad) == (0..(Len(hd) - 1)) \X (0..(Len(ad) - 1))

\* C23: every score (h, a) adds P(h) * P(a) to exactly one of HOME (h > a),
\* DRAW (h = a) and AWAY (h < a), so that for two distributions each
\* summing to 1 the three outputs sum to 1.
C23_OutcomesPartition ==
    (pc = "l_done" /\ call.fn = "predict_outcome_probs") =>
        LET hd == call.home_goals_dist
            ad == call.away_goals_dist
        IN /\ FracEq(ret.HOME, Mass(hd, ad, {p \in Scores(hd, ad) : p[1] > p[2]}))
           /\ FracEq(ret.DRAW, Mass(hd, ad, {p \in Scores(hd, ad) : p[1] = p[2]}))
           /\ FracEq(ret.AWAY, Mass(hd, ad, {p \in Scores(hd, ad) : p[1] < p[2]}))
           /\ (FracEq(Total(hd), Whole(1)) /\ FracEq(Total(ad), Whole(1)))
                 => FracEq(FracPlus(ret.HOME, FracPlus(ret.DRAW, ret.AWAY)), Whole(1))

C23_Witness ==
    /\ pc = "l_done"
    /\ call.fn = "predict_outcome_probs"
    /\ Len(call.home_goals_dist) = 3
    /\ Len(call.away_goals_dist) = 2
    /\ FracEq(Total(call.home_goals_dist), Whole(1))
    /\ ret.HOME.n > 0
    /\ ret.DRAW.n > 0
    /\ ret.AWAY.n > 0
    /\ FracEq(FracPlus(ret.HOME, FracPlus(ret.DRAW, ret.AWAY)), Whole(1))

(***************************************************************************)
(* ModelEvaluator._calc_brier_score and analyze_prediction_confidence.     *)
(***************************************************************************)
MaxEvalSamples == 2

NClasses == {0, 1, 2}

\* probability rows of a 3-class model, classes 0, 1, 2 at indices 1, 2, 3
ProbaRows ==
    { << Frac(1, 3), Frac(1, 3), Frac(1, 3) >>,
      << Frac(4, 10), Frac(3, 10), Frac(3, 10) >>,
      << Frac(5, 10), Frac(5, 10), Frac(0, 10) >>,
      << Frac(0, 10), Frac(6, 10), Frac(4, 10) >>,
      << Frac(1, 10), Frac(2, 10), Frac(7, 10) >>,
      << Whole(1), Whole(0), Whole(0) >>,
      << Whole(0), Whole(1), Whole(0) >>,
      << Whole(0), Whole(0), Whole(1) >> }

\* mutant of SquaredDifference: the absolute difference
AbsDifference(p, t) ==
    LET e == Reduced(FracSub(p, t)) IN IF e.n < 0 THEN Frac(0 - e.n, e.d) ELSE e

\* line 111: (proba - true_onehot) ** 2, one component
SquaredDifference(p, t) == LET e == Reduced(FracSub(p, t)) IN FracTimes(e, e)

\* lines 107-108
OneHot(true_label) == [c \in 1..3 |-> IF c = true_label + 1 THEN Whole(1) ELSE Whole(0)]

\* line 111: np.sum over the classes
RowBrier(proba, true_label) ==
    LET true_onehot == OneHot(true_label)
    IN FracPlus(SquaredDifference(proba[1], true_onehot[1]),
                FracPlus(SquaredDifference(proba[2], true_onehot[2]),
                         SquaredDifference(proba[3], true_onehot[3])))

\* lines 103-111: the loop over the samples, from the i-th on
RECURSIVE BrierLoop(_, _, _, _)
BrierLoop(brier, y_true, y_proba, i) ==
    IF i > Len(y_true) THEN brier
    ELSE BrierLoop(FracPlus(brier, RowBrier(y_proba[i], y_true[i])), y_true, y_proba, i + 1)

\* _calc_brier_score
CalcBrierScore(y_true, y_proba) ==
    IF Len(y_true) = 0 THEN ZeroDivision
    ELSE Num(Reduced(FracDiv(BrierLoop(Whole(0), y_true, y_proba, 1), Len(y_true))))

\* line 308, in tenths
Bins == << << 0, 4 >>, << 4, 5 >>, << 5, 6 >>, << 6, 7 >>, << 7, 10 >> >>

\* line 322: f'{low:.1f}-{high:.1f}'
BinLabel(b) ==
    IF b = 1 THEN "0.0-0.4" ELSE IF b = 2 THEN "0.4-0.5" ELSE IF b = 3 THEN "0.5-0.6"
    ELSE IF b = 4 THEN "0.6-0.7" ELSE "0.7-1.0"

\* line 305: np.max of a row
MaxProba(row) ==
    LET m12 == IF FracLe(row[2], row[1]) THEN row[1] ELSE row[2]
    IN IF FracLe(row[3], m12) THEN m12 ELSE row[3]

\* line 317: np.argmax of a row, the first of the largest entries
ArgMax(row) ==
    (CHOOSE c \in 1..3 : /\ FracEq(row[c], MaxProba(row))
                         /\ \A e \in 1..(c - 1) : ~FracEq(row[e], MaxProba(row))) - 1

\* line 311: mask = (max_proba >= low) & (max_proba < high)
Mask(y_proba, b) ==
    { i \in 1..Len(y_proba) : /\ FracLe(Frac(Bins[b][1], 10), MaxProba(y_proba[i]))
                              /\ ~FracLe(Frac(Bins[b][2], 10), MaxProba(y_proba[i])) }

RECURSIVE SumOver(_, _)
SumOver(set, y_proba) ==
    IF set = {} THEN Whole(0)
    ELSE LET i == CHOOSE j \in set : TRUE
         IN FracPlus(MaxProba(y_proba[i]), SumOver(set \ {i}, y_proba))

\* lines 313-326: the entry of one non-empty bin
BinEntry(y_proba, y_true, mask) ==
    [count |-> Cardinality(mask),
     accuracy |-> Reduced(Frac(Cardinality({i \in mask : ArgMax(y_proba[i]) = y_true[i]}),
                               Cardinality(mask))),
     avg_confidence |-> Reduced(FracDiv(SumOver(mask, y_proba), Cardinality(mask)))]

\* analyze_prediction_confidence: the entries of the bins that hold a sample
AnalyzePredictionConfidence(y_proba, y_true) ==
    LET kept == { b \in 1..Len(Bins) : Mask(y_proba, b) # {} }
    IN [ label \in { BinLabel(b) : b \in kept } |->
           LET b == CHOOSE c \in kept : BinLabel(c) = label
           IN BinEntry(y_proba, y_true, Mask(y_proba, b)) ]

EvalSamples ==
    UNION { [1..n -> ProbaRows \X NClasses] : n \in 0..MaxEvalSamples }

EvalCalls ==
    { [fn |-> f,
       y_proba |-> [i \in 1..Len(sm) |-> sm[i][1]],
       y_true |-> [i \in 1..Len(sm) |-> sm[i][2]]] :
        f \in {"_calc_brier_score", "analyze_prediction_confidence"}, sm \in EvalSamples }

EvalInit ==
    /\ db = EmptyStore
    /\ RunIdle
    /\ FetcherIdle
    /\ pc = "e_start"
    /\ call \in EvalCalls
    /\ ret = NoReturn
    /\ idx = 0
    /\ features_list = << >>
    /\ labels = << >>
    /\ skipped = << >>
    /\ files = {}

EvalBrier ==
    /\ pc = "e_start"
    /\ call.fn = "_calc_brier_score"
    /\ ret' = CalcBrierScore(call.y_true, call.y_proba)
    /\ pc' = "e_done"
    /\ UNCHANGED << db, call, idx, features_list, labels, skipped, files, runVars, fetcherVars >>

EvalConfidence ==
    /\ pc = "e_start"
    /\ call.fn = "analyze_prediction_confidence"
    /\ ret' = [kind |-> "dict", analysis |-> AnalyzePredictionConfidence(call.y_proba, call.y_true)]
    /\ pc' = "e_done"
    /\ UNCHANGED << db, call, idx, features_list, labels, skipped, files, runVars, fetcherVars >>

EvalNext == EvalBrier \/ EvalConfidence

SpecEvaluate == EvalInit /\ [][EvalNext]_vars

\* squared Euclidean distance of a probability row from the one-hot vector
\* of class t, expanded: sum of p_c^2, minus 2 p_t, plus 1
Distance2(row, t) ==
    FracPlus(FracPlus(FracTimes(row[1], row[1]),
                      FracPlus(FracTimes(row[2], row[2]), FracTimes(row[3], row[3]))),
             FracPlus(Whole(1), FracTimes(Whole(0 - 2), row[t + 1])))

RECURSIVE MeanDistance2Sum(_, _, _)
MeanDistance2Sum(y_true, y_proba, i) ==
    IF i > Len(y_true) THEN Whole(0)
    ELSE FracPlus(Distance2(y_proba[i], y_true[i]), MeanDistance2Sum(y_true, y_proba, i + 1))

RECURSIVE CountSum(_, _)
CountSum(analysis, keys) ==
    IF keys = {} THEN 0
    ELSE LET k == CHOOSE x \in keys : TRUE
         IN analysis[k].count + CountSum(analysis, keys \ {k})

\* C25: every sample falls in exactly one of the five confidence ranges,
\* the last of them closed at 1, so the bucket counts add up to the number
\* of samples, a maximum probability of exactly 1.0 included.
C25_EverySampleBucketed ==
    (pc = "e_done" /\ call.fn = "analyze_prediction_confidence") =>
        /\ \A i \in 1..Len(call.y_proba) :
              Cardinality({b \in 1..Len(Bins) : i \in Mask(call.y_proba, b)}) = 1
        /\ CountSum(ret.analysis, DOMAIN ret.analysis) = Len(call.y_proba)

(***************************************************************************)
(* _export_all_models and the ONNXExporter methods it calls.  A file is    *)
(* named by the model it belongs to and the ending of its path; any step   *)
(* that computes or writes may raise, and a write that raises leaves no    *)
(* file behind.                                                            *)
(***************************************************************************)
\* train_all: the models of self.results, in insertion order
ResultNames == << "logistic", "xgboost", "random_forest" >>

\* output_path and the paths derived from it by .replace('.onnx', ...)
OnnxPath(name) == [model |-> name, ending |-> "_v1.onnx"]
MetadataPath(name) == [model |-> name, ending |-> "_v1_metadata.json"]
XgbJsonPath(name) == [model |-> name, ending |-> "_v1_xgboost.json"]
JsonPath(name) == [model |-> name, ending |-> "_v1.json"]

ExportInit ==
    /\ db = EmptyStore
    /\ RunIdle
    /\ FetcherIdle
    /\ pc = "x_makedirs"
    /\ call = [fn |-> "_export_all_models", results |-> ResultNames]
    /\ ret = NoReturn
    /\ idx = 0
    /\ features_list = << >>
    /\ labels = << >>
    /\ skipped = << >>
    /\ files = {}

\* the model in hand
ExportName == call.results[idx]

\* train.py line 249: os.makedirs, which may raise out of _export_all_models
ExportMakedirs ==
    /\ pc = "x_makedirs"
    /\ \E raises \in BOOLEAN :
         IF raises THEN pc' = "x_raised" /\ ret' = [kind |-> "raised", exception |-> "OSError"]
         ELSE pc' = "x_loop" /\ ret' = ret
    /\ UNCHANGED << db, call, idx, features_list, labels, skipped, files, runVars, fetcherVars >>

\* train.py lines 251-267: the next model of self.results and its exporter
ExportDispatch ==
    /\ pc = "x_loop"
    /\ IF idx >= Len(call.results)
       THEN /\ pc' = "x_done"
            /\ ret' = [kind |-> "returned"]
            /\ idx' = idx
       ELSE /\ idx' = idx + 1
            /\ ret' = ret
            /\ pc' = LET name == call.results[idx + 1]
                     IN IF name = "xgboost" THEN "xgb_save"
                        ELSE IF name = "random_forest" THEN "rf_convert"
                        ELSE IF name = "logistic" THEN "lr_convert"
                        ELSE "x_loop"
    /\ UNCHANGED << db, call, features_list, labels, skipped, files, runVars, fetcherVars >>

\* where control goes after a step of an exporter: on, or to the handler
Step(raises, on, handler) == IF raises THEN handler ELSE on

\* export_random_forest lines 170-174 and export_logistic_regression lines
\* 214-218: convert_sklearn
SklearnConvert(at, on) ==
    /\ pc = at
    /\ \E raises \in BOOLEAN : pc' = Step(raises, on, "x_loop")
    /\ UNCHANGED << db, call, ret, idx, features_list, labels, skipped, files, runVars, fetcherVars >>

\* lines 177 and 221: onnx.save(onnx_model, output_path)
SklearnSave(at, on) ==
    /\ pc = at
    /\ \E raises \in BOOLEAN :
         /\ pc' = Step(raises, on, "x_loop")
         /\ files' = IF raises THEN files ELSE files \cup {OnnxPath(ExportName)}
    /\ UNCHANGED << db, call, ret, idx, features_list, labels, skipped, runVars, fetcherVars >>

\* lines 180-191 and 224-235: the metadata built and written
SklearnMetadata(at) ==
    /\ pc = at
    /\ \E raises \in BOOLEAN :
         /\ pc' = "x_loop"
         /\ files' = IF raises THEN files ELSE files \cup {MetadataPath(ExportName)}
    /\ UNCHANGED << db, call, ret, idx, features_list, labels, skipped, runVars, fetcherVars >>

\* export_xgboost lines 61-65: booster.save_model(json_path)
XgbSave ==
    /\ pc = "xgb_save"
    /\ \E raises \in BOOLEAN :
         /\ pc' = Step(raises, "xgb_metadata", "fb_dump")
         /\ files' = IF raises THEN files ELSE files \cup {XgbJsonPath(ExportName)}
    /\ UNCHANGED << db, call, ret, idx, features_list, labels, skipped, runVars, fetcherVars >>

\* export_xgboost lines 68-83: the metadata built and written
XgbMetadata ==
    /\ pc = "xgb_metadata"
    /\ \E raises \in BOOLEAN :
         /\ pc' = Step(raises, "xgb_copy", "fb_dump")
         /\ files' = IF raises THEN files ELSE files \cup {MetadataPath(ExportName)}
    /\ UNCHANGED << db, call, ret, idx, features_list, labels, skipped, runVars, fetcherVars >>

\* export_xgboost line 87: shutil.copy(json_path, ...)
XgbCopy ==
    /\ pc = "xgb_copy"
    /\ \E raises \in BOOLEAN :
         /\ pc' = Step(raises, "x_loop", "fb_dump")
         /\ files' = IF raises THEN files ELSE files \cup {JsonPath(ExportName)}
    /\ UNCHANGED << db, call, ret, idx, features_list, labels, skipped, runVars, fetcherVars >>

\* _save_xgboost_params lines 112-126: the trees dumped
FallbackDump ==
    /\ pc = "fb_dump"
    /\ \E raises \in BOOLEAN : pc' = Step(raises, "fb_json", "x_loop")
    /\ UNCHANGED << db, call, ret, idx, features_list, labels, skipped, files, runVars, fetcherVars >>

\* _save_xgboost_params lines 129-131
FallbackJson ==
    /\ pc = "fb_json"
    /\ \E raises \in BOOLEAN :
         /\ pc' = Step(raises, "fb_metadata", "x_loop")
         /\ files' = IF raises THEN files ELSE files \cup {JsonPath(ExportName)}
    /\ UNCHANGED << db, call, ret, idx, features_list, labels, skipped, runVars, fetcherVars >>

\* _save_xgboost_params lines 134-147
FallbackMetadata ==
    /\ pc = "fb_metadata"
    /\ \E raises \in BOOLEAN :
         /\ pc' = "x_loop"
         /\ files' = IF raises THEN files ELSE files \cup {MetadataPath(ExportName)}
    /\ UNCHANGED << db, call, ret, idx, features_list, labels, skipped, runVars, fetcherVars >>

ExportNext ==
    \/ ExportMakedirs
    \/ ExportDispatch
    \/ SklearnConvert("rf_convert", "rf_save")
    \/ SklearnSave("rf_save", "rf_metadata")
    \/ SklearnMetadata("rf_metadata")
    \/ SklearnConvert("lr_convert", "lr_save")
    \/ SklearnSave("lr_save", "lr_metadata")
    \/ SklearnMetadata("lr_metadata")
    \/ XgbSave
    \/ XgbMetadata
    \/ XgbCopy
    \/ FallbackDump
    \/ FallbackJson
    \/ FallbackMetadata

SpecExport == ExportInit /\ [][ExportNext]_vars

\* the files of one model, and whether they are its model file (in any of
\* its forms) together with its metadata
FilesOf(name) == {f \in files : f.model = name}
ModelFiles(name) == {OnnxPath(name), XgbJsonPath(name), JsonPath(name)}
AllWritten(name) ==
    /\ MetadataPath(name) \in files
    /\ ModelFiles(name) \cap files # {}

\* C26: whenever the export step of a model has ended, normally or by a
\* caught failure at any write, either all of the model's artifact files
\* (model file plus metadata) have been written or none of them has.
C26_NoPartialExport ==
    (pc \in {"x_loop", "x_done"}) =>
        \A i \in 1..idx : FilesOf(call.results[i]) = {} \/ AllWritten(call.results[i])

(***************************************************************************)
(* The statistics and head-to-head queries as prepare_training_data runs   *)
(* them, match by match, against the fixtures and standings tables.        *)
(***************************************************************************)
MaxFixtures == 12

\* LIMIT 10 of the statistics query
StatsLimit == 10

\* the fixtures table: one league, one fixture per kickoff time 1..n
FixturePatterns == {"pair", "three_teams", "some_unfinished"}

FixtureAt(t, pattern) ==
    LET swap == t % 2 = 0
        home == IF pattern = "three_teams" /\ t % 3 = 2 THEN 3
                ELSE IF swap THEN 2 ELSE 1
        away == IF pattern = "three_teams" /\ t % 3 = 0 THEN 3
                ELSE IF pattern = "three_teams" /\ t % 3 = 2 THEN 2
                ELSE IF swap THEN 1 ELSE 2
    IN [kickoff |-> t, leagueId |-> 1, homeTeamId |-> home, awayTeamId |-> away,
        homeGoals |-> t % 3, awayGoals |-> 1,
        status |-> IF pattern = "some_unfinished" /\ t % 4 = 0 THEN "SCHEDULED" ELSE "FINISHED"]

FixtureTable(n, pattern) == [t \in 1..n |-> FixtureAt(t, pattern)]

\* the standings table: at most one row per team
StandingsRow(team) == [leagueId |-> 1, teamId |-> team, position |-> 3 * team + 1]
StandingsTables == { {StandingsRow(team) : team \in ts} : ts \in SUBSET {1, 2, 3} }

\* mutant of EarlierThan: the cutoff itself included
NotLaterThan(kickoff, before_date) == kickoff <= before_date

\* f.kickoff < %s
EarlierThan(kickoff, before_date) == kickoff < before_date

\* lines 231-234: the WHERE clause of the statistics query
StatsQualifies(f, team_id, before_date) ==
    /\ f.homeTeamId = team_id \/ f.awayTeamId = team_id
    /\ f.status = "FINISHED"
    /\ EarlierThan(f.kickoff, before_date)

\* lines 214-230: the rows the LEFT JOIN yields for one fixture, one per
\* standings row of its league that belongs to its home or to its away
\* team, or a single row of NULLs when there is none; rows of one fixture
\* have one kickoff, so the ORDER BY leaves their order open (home_first)
JoinedRows(f, standings, team_id, home_first) ==
    LET row(s) == [kickoff |-> f.kickoff, homeGoals |-> f.homeGoals, awayGoals |-> f.awayGoals,
                   venue |-> IF f.homeTeamId = team_id THEN "HOME" ELSE "AWAY",
                   league_position |-> s]
        of(team) == IF \E s \in standings : s.leagueId = f.leagueId /\ s.teamId = team
                    THEN << row((CHOOSE s \in standings :
                                   s.leagueId = f.leagueId /\ s.teamId = team).position) >>
                    ELSE << >>
        joined == IF home_first THEN of(f.homeTeamId) \o of(f.awayTeamId)
                  ELSE of(f.awayTeamId) \o of(f.homeTeamId)
    IN IF joined = << >> THEN << row(None) >> ELSE joined

\* ORDER BY f.kickoff DESC: the joined rows of the fixtures from kickoff t down
RECURSIVE StatsRowsFrom(_, _, _, _, _, _)
StatsRowsFrom(t, table, standings, team_id, before_date, home_first) ==
    IF t < 1 THEN << >>
    ELSE (IF StatsQualifies(table[t], team_id, before_date)
          THEN JoinedRows(table[t], standings, team_id, home_first) ELSE << >>)
         \o StatsRowsFrom(t - 1, table, standings, team_id, before_date, home_first)

\* lines 212-243: what cursor.fetchall() returns for the statistics query
StatsQuery(table, standings, team_id, before_date, home_first) ==
    Prefix(StatsRowsFrom(Len(table), table, standings, team_id, before_date, home_first),
           StatsLimit)

\* lines 366-371: the WHERE clause of the head-to-head query
H2HQualifies(f, team1_id, team2_id, before_date) ==
    /\ \/ f.homeTeamId = team1_id /\ f.awayTeamId = team2_id
       \/ f.homeTeamId = team2_id /\ f.awayTeamId = team1_id
    /\ f.status = "FINISHED"
    /\ EarlierThan(f.kickoff, before_date)

RECURSIVE H2HRowsFrom(_, _, _, _, _)
H2HRowsFrom(t, table, team1_id, team2_id, before_date) ==
    IF t < 1 THEN << >>
    ELSE (IF H2HQualifies(table[t], team1_id, team2_id, before_date)
          THEN << table[t] >> ELSE << >>)
         \o H2HRowsFrom(t - 1, table, team1_id, team2_id, before_date)

\* lines 360-379: what cursor.fetchall() returns for the head-to-head query
H2HQuery(table, team1_id, team2_id, before_date, limit) ==
    Prefix(H2HRowsFrom(Len(table), table, team1_id, team2_id, before_date), limit)

\* the finished fixtures, which prepare_training_data goes through
FinishedOf(table) == SelectSeq(table, LAMBDA f : f.status = "FINISHED")

NoSnapshots ==
    [kind |-> "snapshots", home_rows |-> << >>, away_rows |-> << >>, h2h_rows |-> << >>,
     home_stats |-> EmptyDict, away_stats |-> EmptyDict, h2h |-> << >>]

SnapshotCalls ==
    { [fn |-> "prepare_training_data", fixtures |-> FixtureTable(n, pattern),
       standings |-> st, matches_df |-> FinishedOf(FixtureTable(n, pattern))] :
        n \in 0..MaxFixtures, pattern \in FixturePatterns, st \in StandingsTables }

SnapshotInit ==
    /\ db = EmptyStore
    /\ RunIdle
    /\ FetcherIdle
    /\ call \in SnapshotCalls
    /\ pc = IF Len(call.matches_df) = 0 THEN "q_done" ELSE "q_home"
    /\ idx = IF Len(call.matches_df) = 0 THEN 0 ELSE 1
    /\ ret = NoSnapshots
    /\ features_list = << >>
    /\ labels = << >>
    /\ skipped = << >>
    /\ files = {}

\* lines 447-450: home_stats = self.load_team_stats(home_team_id, kickoff)
SnapshotHome ==
    /\ pc = "q_home"
    /\ \E home_first \in BOOLEAN :
         LET fetched == StatsQuery(call.fixtures, call.standings,
                                   call.matches_df[idx].homeTeamId,
                                   call.matches_df[idx].kickoff, home_first)
         IN ret' = [NoSnapshots EXCEPT !.home_rows = fetched,
                                       !.home_stats = LoadTeamStats(TRUE, FALSE, fetched)]
    /\ pc' = "q_away"
    /\ UNCHANGED << db, call, idx, features_list, labels, skipped, files, runVars, fetcherVars >>

\* lines 451-454: away_stats = self.load_team_stats(away_team_id, kickoff)
SnapshotAway ==
    /\ pc = "q_away"
    /\ \E home_first \in BOOLEAN :
         LET fetched == StatsQuery(call.fixtures, call.standings,
                                   call.matches_df[idx].awayTeamId,
                                   call.matches_df[idx].kickoff, home_first)
         IN ret' = [ret EXCEPT !.away_rows = fetched,
                               !.away_stats = LoadTeamStats(TRUE, FALSE, fetched)]
    /\ pc' = "q_h2h"
    /\ UNCHANGED << db, call, idx, features_list, labels, skipped, files, runVars, fetcherVars >>

\* lines 457-461: h2h = self.load_head_to_head(home_team_id, away_team_id, kickoff)
SnapshotH2H ==
    /\ pc = "q_h2h"
    /\ LET fetched == H2HQuery(call.fixtures, call.matches_df[idx].homeTeamId,
                               call.matches_df[idx].awayTeamId,
                               call.matches_df[idx].kickoff, H2HLimit)
       IN ret' = [ret EXCEPT !.h2h_rows = fetched,
                             !.h2h = LoadHeadToHead(fetched, H2HLimit)]
    /\ pc' = "q_loaded"
    /\ UNCHANGED << db, call, idx, features_list, labels, skipped, files, runVars, fetcherVars >>

\* line 445: the next match of matches_df
SnapshotNextMatch ==
    /\ pc = "q_loaded"
    /\ IF idx < Len(call.matches_df)
       THEN idx' = idx + 1 /\ pc' = "q_home"
       ELSE idx' = idx /\ pc' = "q_done"
    /\ UNCHANGED << db, call, ret, features_list, labels, skipped, files, runVars, fetcherVars >>

SnapshotNext == SnapshotHome \/ SnapshotAway \/ SnapshotH2H \/ SnapshotNextMatch

SpecSnapshots == SnapshotInit /\ [][SnapshotNext]_vars

\* the rows of a result in order of kickoff, most recent first
MostRecentFirst(rows) ==
    \A i \in 1..Len(rows) : \A j \in i..Len(rows) : rows[i].kickoff >= rows[j].kickoff

\* C27: for every match M that prepare_training_data processes, each match
\* contributing to the home snapshot, the away snapshot or the head-to-head
\* list of M kicked off strictly before M (M itself never contributes);
\* a team snapshot draws on at most 10 matches and the head-to-head list on
\* at most 5, and each result is ordered most-recent-first.
C27_NoLookAhead ==
    (pc = "q_loaded") =>
        LET M == call.matches_df[idx]
        IN /\ \A r \in Range(ret.home_rows) \cup Range(ret.away_rows) \cup Range(ret.h2h_rows) :
                r.kickoff < M.kickoff
           /\ Cardinality({r.kickoff : r \in Range(ret.home_rows)}) <= 10
           /\ Cardinality({r.kickoff : r \in Range(ret.away_rows)}) <= 10
           /\ Len(ret.home_rows) <= 10
           /\ Len(ret.away_rows) <= 10
           /\ Len(ret.h2h_rows) <= 5
           /\ Len(ret.h2h) = Len(ret.h2h_rows)
           /\ MostRecentFirst(ret.home_rows)
           /\ MostRecentFirst(ret.away_rows)
           /\ MostRecentFirst(ret.h2h_rows)

C27_Witness ==
    /\ pc = "q_loaded"
    /\ call.matches_df[idx].kickoff = 11
    /\ Len(call.fixtures) = 12
    /\ call.fixtures[12].status = "FINISHED"
    /\ call.fixtures[12].homeTeamId = call.matches_df[idx].awayTeamId
    /\ Len(ret.home_rows) = 10
    /\ Len(ret.h2h_rows) = 5
    /\ ret.home_rows[1].kickoff = 10
    /\ ret.h2h_rows[1].kickoff = 10

\* the fixtures of a team that the statistics query qualifies for a match
QualifyingKickoffs(team_id, before_date) ==
    { call.fixtures[t].kickoff : t \in { u \in 1..Len(call.fixtures) :
        /\ call.fixtures[u].homeTeamId = team_id \/ call.fixtures[u].awayTeamId = team_id
        /\ call.fixtures[u].status = "FINISHED"
        /\ call.fixtures[u].kickoff < before_date } }

\* C29: each finished fixture of the team contributes at most once to its
\* snapshot, whatever standings rows exist for the two teams of the
\* fixture: matches_played never exceeds the number of distinct fixtures in
\* the window, and the window covers the team's 10 most recent distinct
\* fixtures when that many exist.
C29_EachFixtureOnce ==
    (pc = "q_loaded") =>
        LET M == call.matches_df[idx]
            window == {r.kickoff : r \in Range(ret.home_rows)}
            qualifying == QualifyingKickoffs(M.homeTeamId, M.kickoff)
        IN /\ Len(ret.home_rows) = Cardinality(window)
           /\ ret.home_rows # << >> => ret.home_stats.matches_played <= Cardinality(window)
           /\ Cardinality(qualifying) >= 10 => Cardinality(window) = 10

(***************************************************************************)
(* The connections of load_data over the whole run.                        *)
(***************************************************************************)
\* the connections open at this moment
NowOpenCount == open["loader1"] + open["seed"] + open["loader2"]

\* C30: every database connection opened during load_data, by either
\* loader or by seed_historical_matches, is closed by the time load_data
\* returns, on every path including those where a stage raises, and at no
\* moment are two connections open at once.
C30_ClosedAtReturnNeverTwoOpen ==
    /\ pc = "done" => \A o \in Openers : open[o] = 0
    /\ NowOpenCount <= 1

====
